---- MODULE Spec2Model ----
(***************************************************************************)
(* Ground-based laser debris removal: the physics module (part_003) and    *)
(* the visibility scanner (MissionPlanner.jsx) as state machines.          *)
(*                                                                         *)
(* The source computes in IEEE doubles.  The model computes in fixed point *)
(* over 32-bit integers, every quantity in a stated unit:                  *)
(*   temperature      micro-kelvin          (TempScale per K)              *)
(*   fluence          micro-J/cm^2          (FluenceScale per J/cm^2)      *)
(*   efficiency, c_m  parts per million     (Ppm)                          *)
(*   mass             kg                                                   *)
(*   area             cm^2                  (AreaScale per m^2)            *)
(*   time             s                                                    *)
(*   length           m        beam radius  micro-m                        *)
(*   velocity         mm/s                                                 *)
(*   eccentricity     parts per million                                    *)
(*   intensity        0.01 W/cm^2                                          *)
(* Products that exceed 32 bits go through MulDiv, which is exact          *)
(* (floor of x*y/z) and saturates at MaxInt.                               *)
(***************************************************************************)
EXTENDS Integers, Sequences, FiniteSets, TLC

VARIABLES
  tracker,          \* the ThermalBudgetTracker object
  lastCall,         \* the last API call made and what it returned
  nCalls,           \* number of API calls made so far
  debris,           \* the debris object handed to the engine
  laserParams,      \* planRemovalCampaign: its arguments ...
  passTimes,
  material,
  i,                \* ... and its locals
  currentDebris,
  passResults,
  totalPulses,
  totalEnergy,
  missionComplete,
  report,           \* what planRemovalCampaign returns
  heap,             \* two planRemovalCampaign runs: the objects they refer to
  runs,             \* and the locals of each run
  validation,       \* what validateDebrisParameters returns
  minElevation,     \* calculateVisibilityWindows: its argument (degrees),
  elevations,       \* the elevation of each sample taken so far (degrees),
  currentTime,      \* and its locals; times in ms since startDate
  isPassActive,
  currentPass,
  passes,
  profile,          \* the elevation profile sampled, when it is a given one
  stations,         \* the application's state: the ground-station list,
  selectedDebris,   \* the debris selected,
  missionResults,   \* and the last mission report
  calculating,      \* MissionPlanner's state
  showResults,
  timers,           \* the callbacks setTimeout has pending
  alerts,           \* the alert dialogs shown so far
  now,              \* Date.now(), in ms
  mission,          \* the locals of the last setTimeout callback run
  track,            \* the orbital-mechanics function running: its arguments and locals
  pc                \* where the running function is

apiVars      == <<tracker, lastCall, nCalls>>
campaignVars == <<laserParams, passTimes, material, i, currentDebris, passResults,
                  totalPulses, totalEnergy, missionComplete, report, heap, runs>>
scanVars     == <<minElevation, elevations, currentTime, isPassActive, currentPass,
                  passes, profile>>
plannerVars  == <<stations, selectedDebris, missionResults, calculating,
                  showResults, timers, alerts, now, mission, track>>
vars == <<apiVars, debris, campaignVars, validation, scanVars, plannerVars, pc>>

\* the value of a variable the running function does not use
None == "none"

---------------------------------------------------------------------------
(* Fixed-point arithmetic *)

MaxInt == (2^30 - 1) * 2 + 1
\* IEEE special values a quotient or a logarithm can produce
Infinity == MaxInt
NaN == 0 - MaxInt

Ppm == 10^6
Ppb == 10^9
TempScale == 10^6
FluenceScale == 10^6
AreaScale == 10^4

\* a + b for a, b >= 0, saturating at MaxInt
SatAdd(a, b) == IF a > MaxInt - b THEN MaxInt ELSE a + b

Abs(x) == IF x < 0 THEN 0 - x ELSE x
Min(a, b) == IF a <= b THEN a ELSE b
Max(a, b) == IF a >= b THEN a ELSE b

\* x * y for x, y >= 0, saturating at MaxInt
SatMul(x, y) ==
  IF x = 0 \/ y = 0 THEN 0
  ELSE IF x > MaxInt \div y THEN MaxInt ELSE x * y

\* for 2^15 < z <= 2^28: B, the largest power of two with z * B <= 2^30, and
\* w, the weight of the leading base-B digit of a number below z
Radix(z) ==
  IF z <= 2^20 THEN [B |-> 2^10, w |-> 2^10]
  ELSE IF z <= 2^22 THEN [B |-> 2^8, w |-> 2^16]
  ELSE IF z <= 2^24 THEN [B |-> 2^6, w |-> 2^18]
  ELSE IF z <= 2^25 THEN [B |-> 2^5, w |-> 2^20]
  ELSE IF z <= 2^26 THEN [B |-> 2^4, w |-> 2^24]
  ELSE IF z <= 2^27 THEN [B |-> 2^3, w |-> 2^24]
  ELSE [B |-> 2^2, w |-> 2^26]

\* <<q, r>> = qr taken one base-B digit d further: qr * B + d * o, in
\* quotient and remainder by z; needs z * B <= 2^30
DigitStep(qr, d, o, z, B) ==
  <<qr[1] * B + (qr[2] * B + d * o) \div z, (qr[2] * B + d * o) % z>>

\* <<quotient, remainder>> of m*o by z for m, o < z <= 2^28, one base-B digit
\* of m at a time from the leading one (weight w); qr is the pair so far
RECURSIVE DigitQR(_, _, _, _, _, _)
DigitQR(m, o, z, B, w, qr) ==
  IF w = 0 \/ qr[1] < 0 THEN qr
  ELSE DigitQR(m, o, z, B, w \div B, DigitStep(qr, (m \div w) % B, o, z, B))

\* <<x + y, carry>> modulo z for x, y < z, without exceeding z
AddMod(x, y, z) == IF x >= z - y THEN <<x - (z - y), 1>> ELSE <<x + y, 0>>

\* qr taken one bit further, for any z: the doubling and the addition are
\* reduced modulo z by subtraction
BitStep(qr, bit, o, z) ==
  LET rd == AddMod(qr[2], qr[2], z)
      rr == AddMod(rd[1], IF bit = 1 THEN o ELSE 0, z)
  IN  <<qr[1] * 2 + rd[2] + rr[2], rr[1]>>

RECURSIVE BitQR(_, _, _, _, _)
BitQR(m, o, z, w, qr) ==
  IF w = 0 \/ qr[1] < 0 THEN qr
  ELSE BitQR(m, o, z, w \div 2, BitStep(qr, (m \div w) % 2, o, z))

\* floor(x*y/z) for x, y < z
QuotProd(x, y, z) ==
  IF x = 0 \/ y = 0 THEN 0
  ELSE IF x <= MaxInt \div y THEN (x * y) \div z
  ELSE IF z > 2^28 THEN BitQR(Min(x, y), Max(x, y), z, 2^30, <<0, 0>>)[1]
  ELSE DigitQR(Min(x, y), Max(x, y), z, Radix(z).B, Radix(z).w, <<0, 0>>)[1]

\* floor(a*b/10^9), saturating at MaxInt: long multiplication in base 1000,
\* the quotient being the digits from the fourth on
MulPpb(a, b) ==
  LET a0 == a % 1000
      a1 == (a \div 1000) % 1000
      a2 == (a \div 10^6) % 1000
      a3 == a \div 10^9
      b0 == b % 1000
      b1 == (b \div 1000) % 1000
      b2 == (b \div 10^6) % 1000
      b3 == b \div 10^9
      c0 == a0 * b0
      c1 == a0 * b1 + a1 * b0 + c0 \div 1000
      c2 == a0 * b2 + a1 * b1 + a2 * b0 + c1 \div 1000
      c3 == a0 * b3 + a1 * b2 + a2 * b1 + a3 * b0 + c2 \div 1000
      c4 == a1 * b3 + a2 * b2 + a3 * b1
      c5 == a2 * b3 + a3 * b2
      c6 == a3 * b3
  IN  SatAdd(SatAdd(c3, SatMul(c4, 1000)),
             SatAdd(SatMul(c5, 10^6), SatMul(c6, 10^9)))

\* floor(a*b/z), saturating at MaxInt; x/0 is Infinity.
\* a*b/z = (a div z)*b + (a mod z)*(b div z) + (a mod z)*(b mod z)/z
MulDiv(a, b, z) ==
  IF z = 0 THEN Infinity
  ELSE IF a = 0 \/ b = 0 THEN 0
  ELSE IF a <= MaxInt \div b THEN (a * b) \div z
  ELSE IF z = 10^9 THEN MulPpb(a, b)
  ELSE SatAdd(SatAdd(SatMul(a \div z, b), SatMul(a % z, b \div z)),
              QuotProd(a % z, b % z, z))

\* Newton's iteration from above: the largest s with s*s <= n
RECURSIVE ISqrtFrom(_, _)
ISqrtFrom(n, s) ==
  LET t == (s + n \div s) \div 2
  IN  IF t >= s THEN s ELSE ISqrtFrom(n, t)

ISqrt(n) == IF n <= 0 THEN 0 ELSE ISqrtFrom(n, Min(n, 46341))

\* Newton's iteration from above on the product: floor(sqrt(p*q)); nq is
\* floor(p*q/s) for the estimate s
RECURSIVE SqrtProdFrom(_, _, _, _)
SqrtProdFrom(p, q, s, nq) ==
  LET t == nq + (s - nq) \div 2
  IN  IF nq >= s THEN s ELSE SqrtProdFrom(p, q, t, MulDiv(p, q, t))

SqrtProd(p, q) ==
  IF p <= 0 \/ q <= 0 THEN 0
  ELSE LET s == (ISqrt(p) + 1) * (ISqrt(q) + 1)
       IN  SqrtProdFrom(p, q, s, MulDiv(p, q, s))

\* Horner evaluation of exp(-f/Ppm) * Ppb for 0 <= f < Ppm, terms k..ExpTerms
ExpTerms == 3 * 4
RECURSIVE ExpHorner(_, _, _)
ExpHorner(f, k, acc) ==
  IF k = 0 \/ acc = 0 THEN acc
  ELSE ExpHorner(f, k - 1, Ppb - MulDiv(acc, f, k * Ppm))

\* exp(-k) for k = 0..21 as <<m, d>>, exp(-k) = m/d to six digits
ExpTable ==
  << <<1000000, 10^6>>, <<367879, 10^6>>, <<135335, 10^6>>,
     <<497870, 10^7>>, <<183156, 10^7>>, <<673794, 10^8>>,
     <<247875, 10^8>>, <<911881, 10^9>>, <<335462, 10^9>>,
     <<123409, 10^9>>, <<45399, 10^9>>, <<16701, 10^9>>,
     <<6144, 10^9>>, <<2260, 10^9>>, <<831, 10^9>>,
     <<305, 10^9>>, <<112, 10^9>>, <<41, 10^9>>,
     <<15, 10^9>>, <<5, 10^9>>, <<2, 10^9>>,
     <<0, 10^9>> >>

\* Math.exp(x) for x = xu / 10^6 >= 0 to first order: the exponent with its
\* sign lost
ExpOfPositive(xu) == SatAdd(Ppb, SatMul(xu, 1000))

\* Math.exp(-x) * Ppb for x = xu/Ppm >= 0 (0 once it underflows the scale)
ExpNeg(xu) ==
  LET k == xu \div Ppm
  IN  IF k > 21 THEN 0
      ELSE MulDiv(ExpHorner(xu % Ppm, ExpTerms, Ppb) \div (ExpTable[k + 1][2] \div Ppm),
                  ExpTable[k + 1][1], Ppm)

\* -Math.log(y) * Ppm for y = yb/Ppb in (0, 1]: the least xu with
\* ExpNeg(xu) <= yb, found one decimal digit at a time from the leading one
RECURSIVE NegLogFrom(_, _, _)
NegLogFrom(yb, base, step) ==
  IF step = 0 \/ base < 0 THEN base + 1
  ELSE NegLogFrom(yb,
                  base + step * Cardinality({ d \in 1..(IF step = Ppm THEN 21 ELSE 9) :
                                                ExpNeg(base + d * step) > yb }),
                  step \div 10)

NegLog(yb) == IF yb >= Ppb THEN 0 ELSE NegLogFrom(yb, 0, Ppm)

---------------------------------------------------------------------------
(* Physical constants, in the model's units *)

PHYSICS_CONSTANTS ==
  [ LASER |->
      [ PULSE_ENERGY         |-> 100000,      \* J
        WAVELENGTH           |-> 1030,        \* nm
        PULSE_DURATION       |-> 5,           \* ns
        TRANSMITTER_DIAMETER |-> 4000,        \* mm
        BEAM_QUALITY         |-> 12,          \* M^2 in tenths
        MAX_REPETITION_RATE  |-> 10 ],        \* Hz
    ATMOSPHERE |->
      [ TRANSMISSION_EFFICIENCY |-> 700000 ], \* ppm
    MATERIALS |->
      [ ALUMINUM |-> [ DENSITY |-> 2700, SPECIFIC_HEAT |-> 900,
                       MELTING_POINT |-> 933, MAX_TEMP_RISE |-> 100,
                       THERMAL_CONDUCTIVITY |-> 23700 ],
        STEEL    |-> [ DENSITY |-> 7850, SPECIFIC_HEAT |-> 470,
                       MELTING_POINT |-> 1811, MAX_TEMP_RISE |-> 200,
                       THERMAL_CONDUCTIVITY |-> 5000 ],
        MLI      |-> [ DENSITY |-> 100, SPECIFIC_HEAT |-> 1000,
                       MELTING_POINT |-> 600, MAX_TEMP_RISE |-> 80,
                       THERMAL_CONDUCTIVITY |-> 5 ] ],   \* 0.01 W/(m.K)
    ORBITAL |->
      [ EARTH_RADIUS     |-> 6371000,         \* m
        EARTH_MU         |-> 398600442,       \* 10^6 m^3/s^2
        REENTRY_ALTITUDE |-> 200000,          \* m
        MIN_ELEVATION_ANGLE |-> 20 ],         \* degrees
    SAFETY |->
      [ MAX_SOLAR_CONSTANT_MULTIPLIER |-> 100,
        SOLAR_CONSTANT         |-> 1361,      \* W/m^2
        MIN_DEBRIS_SIZE        |-> 10,        \* cm
        MAX_DEBRIS_SIZE        |-> 1000,      \* cm
        COOLDOWN_SAFETY_FACTOR |-> 15 ] ]     \* in tenths

\* Math.PI as a rational
Pi == [num |-> 355, den |-> 113]
PiNum == Pi.num
PiDen == Pi.den

---------------------------------------------------------------------------
(* Laser-beam model *)

\* a curve that falls to 17.5 at 150 J/cm^2 and stays there
CouplingWithFlatFloor(fluence) ==
  IF fluence < 10 * FluenceScale
  THEN 5 * Ppm + MulDiv(fluence, 5, 10)
  ELSE IF fluence < 50 * FluenceScale
  THEN 10 * Ppm + MulDiv(fluence - 10 * FluenceScale, 375, 1000)
  ELSE IF fluence < 150 * FluenceScale
  THEN 25 * Ppm - MulDiv(fluence - 50 * FluenceScale, 75, 1000)
  ELSE 17 * Ppm + Ppm \div 2

\* c_m in ppm of uN.s/J, fluence in micro-J/cm^2
momentumCouplingCoefficient(fluence) ==
  IF fluence < 10 * FluenceScale
  THEN 5 * Ppm + MulDiv(fluence, 5, 10)
  ELSE IF fluence < 50 * FluenceScale
  THEN 10 * Ppm + MulDiv(fluence - 10 * FluenceScale, 375, 1000)
  ELSE IF fluence < 150 * FluenceScale
  THEN 25 * Ppm - MulDiv(fluence - 50 * FluenceScale, 5, 100)
  ELSE Max(10 * Ppm, 20 * Ppm - MulDiv(fluence - 150 * FluenceScale, 5, 100))

\* efficiency in ppm, fluence in micro-J/cm^2
heatAbsorptionEfficiency(fluence) ==
  IF fluence < 20 * FluenceScale
  THEN 700000
  ELSE IF fluence < 100 * FluenceScale
  THEN 700000 - MulDiv(fluence - 20 * FluenceScale, 3, 1000)
  ELSE Max(300000, 460000 - MulDiv(fluence - 100 * FluenceScale, 1, 1000))

\* w0 * Math.sqrt(1 + Math.pow(distance / rayleighRange, 2)); ratio is
\* distance / rayleighRange in ppm
GaussianBeamRadius(initialRadius, ratio) ==
  MulDiv(initialRadius,
         SqrtProd(10^7 + MulDiv(ratio, ratio, 10^5), 10^7),       \* 1e-7
         10^7)

\* the radius at distance, the Rayleigh range (pi w0^2) / (M^2 lambda), in m,
\* being computed; the divergence (M^2 lambda) / (pi w0) is in 1e-12 rad
BeamRadiusAt(distance, initialRadius, bqLambda, rayleighRange) ==
  IF distance > 10 * rayleighRange
  THEN initialRadius
         + MulDiv(distance,
                  MulDiv(MulDiv(bqLambda * 10^5, PiDen, PiNum), 1000, initialRadius),
                  10^6)
  ELSE GaussianBeamRadius(initialRadius, MulDiv(distance, Ppm, rayleighRange))

\* beam radius in micro-m at distance (m); wavelength nm, diameter mm,
\* beamQuality in tenths
calculateBeamRadius(distance, wavelength, transmitterDiameter, beamQuality) ==
  LET initialRadius == (transmitterDiameter * 1000) \div 2            \* micro-m
      bqLambda      == beamQuality * wavelength                        \* 1e-10 m
  IN  BeamRadiusAt(distance, initialRadius, bqLambda,
                   MulDiv(MulDiv(MulDiv(initialRadius, initialRadius, 10^6),
                                 PiNum, PiDen),
                          10^4, bqLambda))

\* beam cross-section pi r^2 in mm^2, r in micro-m
BeamArea(beamRadius) ==
  MulDiv(MulDiv(beamRadius, beamRadius, 10^6), PiNum, PiDen)

\* fluence in micro-J/cm^2; pulseEnergy J, transmission ppm
calculateFluence(pulseEnergy, beamRadius, atmosphericTransmission) ==
  MulDiv(MulDiv(pulseEnergy, atmosphericTransmission, Ppm), 10^8,
         BeamArea(beamRadius))

\* intensity in 0.01 W/cm^2; pulseDuration ns
calculateIntensity(pulseEnergy, pulseDuration, beamRadius) ==
  MulDiv(MulDiv(pulseEnergy, Ppb, BeamArea(beamRadius)), 10^4, pulseDuration)

\* delta-V of one pulse in nm/s
calculateDeltaV(pulseEnergy, mass, fluence) ==
  MulDiv(momentumCouplingCoefficient(fluence), pulseEnergy, mass * 1000)

\* energy absorbed per pulse, micro-J/cm^2: efficiency * fluence
EnergyAbsorbedPerPulse(fluence) ==
  MulDiv(heatAbsorptionEfficiency(fluence), fluence, Ppm)

\* floor(margin / tempRisePerPulse) for the energy absorbed per pulse
QuotientByRise(margin, absorbed, area, mass, specificHeat) ==
  IF absorbed = 0 \/ area = 0 THEN MaxInt
  ELSE MulDiv(margin, mass * specificHeat, absorbed) \div area

\* floor(margin / tempRisePerPulse), the quotient taken over the exact ratio
\* tempRisePerPulse = area * absorbed / (mass * specificHeat); x/0 is Infinity
PulsesWithin(margin, fluence, area, mass, specificHeat) ==
  QuotientByRise(margin, EnergyAbsorbedPerPulse(fluence), area, mass, specificHeat)

\* areaToMass is passed as its numerator and denominator
calculateMaxPulsesPerPass(maxTempRise, currentTemp, fluence, area, mass, specificHeat) ==
  Max(1, PulsesWithin(maxTempRise, fluence, area, mass, specificHeat))

---------------------------------------------------------------------------
(* ThermalBudgetTracker *)

MaterialNames == {"ALUMINUM", "STEEL", "MLI"}

\* new ThermalBudgetTracker(mat, mass, area, initialTemp);
\* initialTemp in K, areaToMass kept as the pair it is the quotient of
NewTracker(mat, mass, area, initialTemp) ==
  LET matProps == PHYSICS_CONSTANTS.MATERIALS[mat]
  IN  [ material            |-> mat,
        mass                |-> mass,
        area                |-> area,
        areaToMass          |-> <<area, mass>>,
        specificHeat        |-> matProps.SPECIFIC_HEAT,
        maxTempRise         |-> matProps.MAX_TEMP_RISE * TempScale,
        meltingPoint        |-> matProps.MELTING_POINT * TempScale,
        thermalConductivity |-> matProps.THERMAL_CONDUCTIVITY,
        currentTemp         |-> initialTemp * TempScale,
        ambientTemp         |-> initialTemp * TempScale,
        heatHistory         |-> << >> ]

\* deltaT = (areaToMass / specificHeat) * efficiency * fluenceJm2 * numPulses
calculateTempRise(t, numPulses, fluence) ==
  MulDiv(EnergyAbsorbedPerPulse(fluence), t.area * numPulses,
         t.mass * t.specificHeat)

\* the total rise checked against the melting point instead of the budget
IsSafeFromMelting(t, totalTempRise) == totalTempRise <= t.meltingPoint

\* const isSafe = totalTempRise <= this.maxTempRise
IsSafe(t, totalTempRise) == totalTempRise <= t.maxTempRise

\* a reason that forgets the melting point
ReasonIsTempLimit(wouldMelt) == "TEMP_LIMIT_EXCEEDED"

\* wouldMelt ? 'MELTING_RISK' : 'TEMP_LIMIT_EXCEEDED'
RefusalReason(wouldMelt) ==
  IF wouldMelt THEN "MELTING_RISK" ELSE "TEMP_LIMIT_EXCEEDED"

\* a refusal that comes after currentTemp was already written
RefuseHeatingAfterWrite(t, newTemp, wouldMelt) ==
  [ tracker |-> [t EXCEPT !.currentTemp = newTemp],
    result |->
      [ success       |-> FALSE,
        reason        |-> RefusalReason(wouldMelt),
        currentTemp   |-> newTemp,
        attemptedTemp |-> newTemp,
        maxAllowed    |-> t.ambientTemp + t.maxTempRise ] ]

\* the else branch of applyHeating: nothing is written
RefuseHeating(t, newTemp, wouldMelt) ==
  [ tracker |-> t,
    result |->
      [ success       |-> FALSE,
        reason        |-> RefusalReason(wouldMelt),
        currentTemp   |-> t.currentTemp,
        attemptedTemp |-> newTemp,
        maxAllowed    |-> t.ambientTemp + t.maxTempRise ] ]

\* the statements of applyHeating after tempRise is computed
HeatingOutcome(t, tempRise, timestamp) ==
  LET newTemp       == SatAdd(t.currentTemp, tempRise)
      totalTempRise == newTemp - t.ambientTemp
      isSafe        == IsSafe(t, totalTempRise)
      wouldMelt     == newTemp >= t.meltingPoint
  IN  IF isSafe /\ ~wouldMelt
      THEN [ tracker |->
               [t EXCEPT !.currentTemp = newTemp,
                         !.heatHistory = Append(@, [ timestamp   |-> timestamp,
                                                     temperature |-> newTemp,
                                                     tempRise    |-> tempRise,
                                                     totalRise   |-> totalTempRise ])],
             result |->
               [ success      |-> TRUE,
                 newTemp      |-> newTemp,
                 tempRise     |-> tempRise,
                 totalRise    |-> totalTempRise,
                 safetyMargin |-> t.maxTempRise - totalTempRise ] ]
      ELSE RefuseHeating(t, newTemp, wouldMelt)

\* the tracker after the call and what the call returns
applyHeating(t, numPulses, fluence, timestamp) ==
  HeatingOutcome(t, calculateTempRise(t, numPulses, fluence), timestamp)

\* Stefan-Boltzmann constant in 1e-10 W/(m^2 K^4), emissivity in tenths
Radiation == [sigma |-> 567, emissivity |-> 8]

\* (emissivity * sigma * area) / (mass * specificHeat), in 1e-18 /(s K^3)
CoolingRate(t) ==
  MulDiv(Radiation.emissivity * Radiation.sigma * 1000, t.area,
         t.mass * t.specificHeat)

\* 1 / perSecond in ms, perSecond = 4 * coolingRate * currentTemp^3 in 1e-9 /s
TimeConstantOf(perSecond) ==
  IF perSecond = 0 THEN Infinity ELSE MulDiv(Ppb, 1000, perSecond)

\* 1 / (4 * coolingRate * currentTemp^3), in ms
EffectiveTimeConstant(t) ==
  LET tempMilliK == t.currentTemp \div 1000
  IN  TimeConstantOf(
        MulDiv(4 * CoolingRate(t),
               MulDiv(MulDiv(tempMilliK, tempMilliK, 1000),       \* 1e-3 K^2
                      tempMilliK, 10^6),                          \* K^3
               Ppb))

\* cooldownTime / (effectiveTimeConstant / 1000), in ppm
CoolingExponent(cooldownTime, effectiveTimeConstant) ==
  IF effectiveTimeConstant = Infinity THEN 0
  ELSE MulDiv(cooldownTime, Ppb, effectiveTimeConstant)

\* this.currentTemp = newTemp; return newTemp
CooledTo(t, newTemp) ==
  [ tracker |-> [t EXCEPT !.currentTemp = newTemp], result |-> newTemp ]

\* the tracker after the call and what the call returns (the new temperature)
applyCooling(t, cooldownTime) ==
  CooledTo(t, t.ambientTemp
                + MulDiv(t.currentTemp - t.ambientTemp,
                         ExpNeg(CoolingExponent(cooldownTime,
                                                EffectiveTimeConstant(t))),
                         Ppb))

getStatus(t) ==
  [ currentTemp       |-> t.currentTemp,
    ambientTemp       |-> t.ambientTemp,
    tempRise          |-> t.currentTemp - t.ambientTemp,
    maxAllowedRise    |-> t.maxTempRise,
    safetyMargin      |-> t.maxTempRise - (t.currentTemp - t.ambientTemp),
    meltingPoint      |-> t.meltingPoint,
    distanceToMelting |-> t.meltingPoint - t.currentTemp,
    isSafe            |-> (t.currentTemp - t.ambientTemp) <= t.maxTempRise ]

\* -effectiveTimeConstant * Math.log(tempDiffRequired / tempDiffCurrent), in
\* seconds, Infinity or NaN
CooldownOver(effectiveTimeConstant, tempDiffRequired, tempDiffCurrent) ==
  IF tempDiffCurrent = 0
  THEN \* x/0: log(Infinity) for x > 0, log(NaN) for 0/0
       IF tempDiffRequired = 0 THEN NaN ELSE 0
  ELSE IF tempDiffRequired = 0 THEN Infinity
  ELSE IF effectiveTimeConstant = Infinity
  THEN \* -Infinity * log(ratio)
       IF tempDiffRequired = tempDiffCurrent THEN NaN
       ELSE IF tempDiffRequired > tempDiffCurrent THEN 0 ELSE Infinity
  ELSE IF tempDiffRequired >= tempDiffCurrent THEN 0
  ELSE MulDiv(effectiveTimeConstant,
              NegLog(MulDiv(tempDiffRequired, Ppb, tempDiffCurrent)), Ppb)

\* the part of calculateRequiredCooldown after the early return
CooldownToReach(t, nextPassTempRise) ==
  IF nextPassTempRise > t.maxTempRise
  THEN NaN        \* the logarithm of a negative ratio (or of -Infinity)
  ELSE CooldownOver(EffectiveTimeConstant(t),
                    \* (maxTempRise - nextPassTempRise) / factor
                    MulDiv(t.maxTempRise - nextPassTempRise, 10,
                           PHYSICS_CONSTANTS.SAFETY.COOLDOWN_SAFETY_FACTOR),
                    t.currentTemp - t.ambientTemp)

\* the early return of calculateRequiredCooldown and what follows it
CooldownFor(t, nextPassTempRise) ==
  IF nextPassTempRise <= t.maxTempRise - (t.currentTemp - t.ambientTemp) THEN 0
  ELSE CooldownToReach(t, nextPassTempRise)

calculateRequiredCooldown(t, plannedPulses, fluence) ==
  CooldownFor(t, calculateTempRise(t, plannedPulses, fluence))

---------------------------------------------------------------------------
(* Orbital mechanics *)

\* Math.cos at the true anomalies the engine uses (0 and Math.PI)
Cos(trueAnomaly) == IF trueAnomaly = "PI" THEN 0 - 1 ELSE 1

\* calculateOrbitalChanges statement by statement: each stage takes the
\* values computed so far and adds its own.  deltaV in mm/s (negative =
\* retrograde), semiMajorAxis in m, eccentricity in ppm; squared speeds in
\* 0.1 m^2/s^2

\* r = a (1 - e^2) / (1 + e cos(nu))
OrbitRadius(s) ==
  s @@ [ r |-> MulDiv(s.semiMajorAxis,
                      10^8 - MulDiv(s.eccentricity, s.eccentricity, 10^4),
                      10^8 + 100 * s.eccentricity * Cos(s.trueAnomaly)) ]

\* v = sqrt(mu (2/r - 1/a)) in mm/s, and vNew = v + deltaV
OrbitSpeed(s) ==
  LET mu == PHYSICS_CONSTANTS.ORBITAL.EARTH_MU
  IN  s @@ [ vNew |-> SqrtProd(MulDiv(MulDiv(mu, 2 * s.semiMajorAxis - s.r, s.r),
                                      10^7, s.semiMajorAxis),
                               10^5)
                        + s.deltaV ]

\* aNew = mu / (2 mu / r - vNew^2), the difference to 0.4 m^2/s^2
OrbitAxis(s) ==
  LET mu == PHYSICS_CONSTANTS.ORBITAL.EARTH_MU
  IN  s @@ [ aNew |-> MulDiv(mu, 25 * 10^5,
                             (MulDiv(2 * mu, 10^7, s.r)
                                - MulDiv(s.vNew, s.vNew, 10^5)) \div 4) ]

\* Math.sqrt(1 - hRatio), hRatio in ppb; the root of a negative number is NaN
EccentricityOf(hRatio) ==
  IF hRatio > Ppb THEN NaN ELSE SqrtProd(Ppb - hRatio, 1000)

\* eNew = sqrt(1 - hNew^2 / (mu aNew)), hNew = r vNew;
\* hNew^2 / (mu aNew) = (r vNew / aNew) (r vNew / mu), in ppb
OrbitEccentricity(s) ==
  LET mu == PHYSICS_CONSTANTS.ORBITAL.EARTH_MU
  IN  s @@ [ eNew |-> EccentricityOf(
                        MulDiv(MulDiv(s.r * 100, s.vNew, s.aNew),
                               MulDiv(s.r * 50, s.vNew * 100, mu \div 2), \* mu is even
                               Ppb)) ]

\* the perigee and apogee altitudes and the returned record
OrbitalChangesOf(s) ==
  LET earthRadius == PHYSICS_CONSTANTS.ORBITAL.EARTH_RADIUS
  IN  [ newSemiMajorAxis |-> s.aNew,
        newEccentricity  |-> s.eNew,
        perigeeAltitude  |->
          [ old |-> MulDiv(s.semiMajorAxis, Ppm - s.eccentricity, Ppm) - earthRadius,
            new |-> IF s.eNew = NaN THEN NaN
                    ELSE MulDiv(s.aNew, Ppm - s.eNew, Ppm) - earthRadius ],
        apogeeAltitude   |->
          [ old |-> MulDiv(s.semiMajorAxis, Ppm + s.eccentricity, Ppm) - earthRadius,
            new |-> IF s.eNew = NaN THEN NaN
                    ELSE MulDiv(s.aNew, Ppm + s.eNew, Ppm) - earthRadius ] ]

calculateOrbitalChanges(deltaV, semiMajorAxis, eccentricity, trueAnomaly) ==
  OrbitalChangesOf(OrbitEccentricity(OrbitAxis(OrbitSpeed(OrbitRadius(
    [ deltaV |-> deltaV, semiMajorAxis |-> semiMajorAxis,
      eccentricity |-> eccentricity, trueAnomaly |-> trueAnomaly ])))))

---------------------------------------------------------------------------
(* One laser engagement *)

SkipReasons ==
  { "INTENSITY_TOO_HIGH", "MELTING_RISK", "TEMP_LIMIT_EXCEEDED",
    "INSUFFICIENT_COOLDOWN", "THERMAL_LIMIT_REACHED" }

\* SOLAR_CONSTANT * MAX_SOLAR_CONSTANT_MULTIPLIER / 10000, in 0.01 W/cm^2
maxIntensity ==
  (PHYSICS_CONSTANTS.SAFETY.SOLAR_CONSTANT
     * PHYSICS_CONSTANTS.SAFETY.MAX_SOLAR_CONSTANT_MULTIPLIER * 100) \div 10^4

\* debris.visibilityDuration || 300
PassDuration(deb) ==
  IF deb.visibilityDuration = 0 THEN 300 ELSE deb.visibilityDuration

\* the safety check applied to objects larger than 10 m only
IntensityTooHighAbove10m(deb, intensity) ==
  deb.size > 1000 /\ intensity > maxIntensity

\* debris.size > 5 && intensity > maxIntensity
IntensityTooHigh(deb, intensity) == deb.size > 500 /\ intensity > maxIntensity

\* the delta-V of this pass alone
PassDeltaVOnly(deb, totalDeltaV) == totalDeltaV

\* (debris.cumulativeDeltaV || 0) + totalDeltaV
CumulativeDeltaV(deb, totalDeltaV) == deb.cumulativeDeltaV + totalDeltaV

\* simulateLaserPass step by step: each stage takes the arguments and the
\* values computed so far and adds its own.  Sizes are in cm, a repetition
\* rate is the exact quotient num/den (Hz), distances in m.

\* 1. beam propagation
PassBeam(s) ==
  s @@ [ beamRadius |-> calculateBeamRadius(s.distance, s.laser.wavelength,
                                            s.laser.transmitterDiameter,
                                            s.laser.beamQuality) ]

\* 2. fluence, and 3. the intensity
PassFluence(s) ==
  s @@ [ fluence   |-> calculateFluence(s.laser.pulseEnergy, s.beamRadius,
                         PHYSICS_CONSTANTS.ATMOSPHERE.TRANSMISSION_EFFICIENCY),
         intensity |-> calculateIntensity(s.laser.pulseEnergy,
                                          s.laser.pulseDuration, s.beamRadius) ]

\* 4. the maximum pulses the thermal budget allows, and those the pass has
\* time for
PassMaxPulses(s) ==
  s @@ [ maxPulses |->
           calculateMaxPulsesPerPass(
             s.thermalTracker.maxTempRise
               - (s.thermalTracker.currentTemp - s.thermalTracker.ambientTemp),
             s.thermalTracker.currentTemp, s.fluence,
             s.deb.area, s.deb.mass, s.thermalTracker.specificHeat),
         maxPulsesByTime |->
           (PassDuration(s.deb) * s.laser.repetitionRate.num)
              \div s.laser.repetitionRate.den ]

\* 5. the actual pulses
PassPulses(s) == s @@ [ actualPulses |-> Min(s.maxPulses, s.maxPulsesByTime) ]

\* 6. thermal heating: the tracker after the call and the call's result
PassHeating(s) ==
  s @@ [ heating |-> applyHeating(s.thermalTracker, s.actualPulses, s.fluence,
                                  s.timestamp) ]

\* 7. momentum transfer, per pulse in nm/s
PassDeltaV(s) ==
  s @@ [ deltaVSingle |-> calculateDeltaV(s.laser.pulseEnergy, s.deb.mass,
                                          s.fluence) ]

\* and in total, in mm/s
PassTotalDeltaV(s) ==
  s @@ [ totalDeltaV |-> MulDiv(s.deltaVSingle, s.actualPulses, 10^6) ]

\* 8. orbital changes of the retrograde burn at apogee
PassOrbit(s) ==
  s @@ [ orbitalChanges |-> calculateOrbitalChanges(0 - s.totalDeltaV,
                              s.deb.semiMajorAxis, s.deb.eccentricity, "PI") ]

\* 9-12. the updated debris, the re-entry test and the returned record
PassAccepted(s) ==
  [ tracker |-> s.heating.tracker,
    result  |->
      [ success            |-> TRUE,
        timestamp          |-> s.timestamp,
        beamRadius         |-> s.beamRadius,
        fluence            |-> s.fluence,
        intensity          |-> s.intensity,
        pulsesDelivered    |-> s.actualPulses,
        maxPulsesByThermal |-> s.maxPulses,
        maxPulsesByTime    |-> s.maxPulsesByTime,
        limitingFactor     |-> IF s.actualPulses = s.maxPulses
                               THEN "THERMAL" ELSE "TIME",
        deltaVPerPulse     |-> s.deltaVSingle,
        totalDeltaV        |-> s.totalDeltaV,
        cumulativeDeltaV   |-> CumulativeDeltaV(s.deb, s.totalDeltaV),
        thermalResult      |-> s.heating.result,
        thermalStatus      |-> getStatus(s.heating.tracker),
        orbitalChanges     |-> s.orbitalChanges,
        updatedDebris      |->
          [s.deb EXCEPT !.semiMajorAxis   = s.orbitalChanges.newSemiMajorAxis,
                        !.eccentricity    = s.orbitalChanges.newEccentricity,
                        !.perigeeAltitude = s.orbitalChanges.perigeeAltitude.new,
                        !.apogeeAltitude  = s.orbitalChanges.apogeeAltitude.new],
        reentryAchieved    |->
          /\ s.orbitalChanges.perigeeAltitude.new # NaN
          /\ s.orbitalChanges.perigeeAltitude.new
               <= PHYSICS_CONSTANTS.ORBITAL.REENTRY_ALTITUDE,
        energyDelivered    |-> s.laser.pulseEnergy * s.actualPulses ] ]

\* if (!thermalResult.success) and what follows it
PassHeated(s) ==
  IF ~s.heating.result.success
  THEN [ tracker |-> s.heating.tracker,
         result  |-> [ success       |-> FALSE,
                       reason        |-> s.heating.result.reason,
                       thermalResult |-> s.heating.result ] ]
  ELSE PassAccepted(PassOrbit(PassTotalDeltaV(PassDeltaV(s))))

\* if (actualPulses < 1) and what follows it
PassLimited(s) ==
  IF s.actualPulses < 1
  THEN [ tracker |-> s.thermalTracker,
         result  |-> [ success       |-> FALSE,
                       reason        |-> "THERMAL_LIMIT_REACHED",
                       thermalStatus |-> getStatus(s.thermalTracker) ] ]
  ELSE PassHeated(PassHeating(s))

\* the intensity constraint for large objects and what follows it
PassGated(s) ==
  IF IntensityTooHigh(s.deb, s.intensity)
  THEN [ tracker |-> s.thermalTracker,
         result  |-> [ success      |-> FALSE,
                       reason       |-> "INTENSITY_TOO_HIGH",
                       intensity    |-> s.intensity,
                       maxIntensity |-> maxIntensity ] ]
  ELSE PassLimited(PassPulses(PassMaxPulses(s)))

\* the tracker after the call and what the call returns
simulateLaserPass(deb, laser, distance, thermalTracker, timestamp) ==
  PassGated(PassFluence(PassBeam(
    [ deb |-> deb, laser |-> laser, distance |-> distance,
      thermalTracker |-> thermalTracker, timestamp |-> timestamp ])))

\* calculateAdaptiveRepRate statement by statement; the repetition rate is
\* the exact quotient num/den

\* the rise per pulse, the available margin and the pulses it allows
RepRateMargin(s) ==
  LET currentRise     == s.thermalTracker.currentTemp - s.thermalTracker.ambientTemp
      availableMargin == s.thermalTracker.maxTempRise - currentRise
  IN  s @@ [ tempRisePerPulse |-> calculateTempRise(s.thermalTracker, 1, s.fluence),
             availableMargin  |-> availableMargin,
             maxPulsesByTemp  |-> PulsesWithin(availableMargin, s.fluence,
                                               s.thermalTracker.area,
                                               s.thermalTracker.mass,
                                               s.thermalTracker.specificHeat) ]

\* Math.min(maxPulsesByTemp / passDuration, maxRepRate) and the pulses it gives
RepRateClamped(s) ==
  LET maxRepRate    == PHYSICS_CONSTANTS.LASER.MAX_REPETITION_RATE
      actualRepRate == IF s.maxPulsesByTemp <= maxRepRate * s.passDuration
                       THEN [num |-> s.maxPulsesByTemp, den |-> s.passDuration]
                       ELSE [num |-> maxRepRate, den |-> 1]
  IN  s @@ [ actualRepRate |-> actualRepRate,
             actualPulses  |-> (actualRepRate.num * s.passDuration)
                                 \div actualRepRate.den ]

\* actualPulses * tempRisePerPulse
RepRateRise(s) ==
  s @@ [ totalTempRise |-> calculateTempRise(s.thermalTracker, s.actualPulses,
                                             s.fluence) ]

RepRateResult(s) ==
  [ repetitionRate   |-> s.actualRepRate,
    pulsesPerPass    |-> s.actualPulses,
    limitingFactor   |->
      IF s.availableMargin > 0
         /\ MulDiv(s.totalTempRise, 100, s.availableMargin) >= 95
      THEN "THERMAL" ELSE "LASER_SYSTEM",
    tempRisePerPulse |-> s.tempRisePerPulse,
    totalTempRise    |-> s.totalTempRise ]

\* a rate that ignores the thermal margin: the laser's maximum, every pass
RepRateAtMaximum(deb, fluence, thermalTracker, passDuration) ==
  RepRateResult(RepRateRise(RepRateClamped(
    [RepRateMargin(
       [ deb |-> deb, fluence |-> fluence, thermalTracker |-> thermalTracker,
         passDuration |-> passDuration ])
     EXCEPT !.maxPulsesByTemp = Infinity])))

calculateAdaptiveRepRate(deb, fluence, thermalTracker, passDuration) ==
  RepRateResult(RepRateRise(RepRateClamped(RepRateMargin(
    [ deb |-> deb, fluence |-> fluence, thermalTracker |-> thermalTracker,
      passDuration |-> passDuration ]))))

---------------------------------------------------------------------------
(* The ThermalBudgetTracker API: a tracker is constructed and then heated
   and cooled by any sequence of calls *)

MaxCalls == 3

\* debris bodies (kg, cm^2) and starting temperatures (K) of the trackers
BodyChoices == { [mass |-> 15, area |-> 1000], [mass |-> 2, area |-> 400] }
InitialTemps == {270, 550}
\* arguments of the calls: pulse counts, fluences (micro-J/cm^2), seconds
PulseChoices == {0, 1, 3000}
FluenceChoices == {0, 550000, 30 * FluenceScale}
CooldownChoices == {0, 5400, 43200}

CampaignIdle ==
  /\ laserParams = None /\ passTimes = None /\ material = None /\ i = 0
  /\ currentDebris = None /\ passResults = << >> /\ totalPulses = 0
  /\ totalEnergy = 0 /\ missionComplete = FALSE /\ report = None
  /\ heap = None /\ runs = None

ScanIdle ==
  /\ minElevation = None
  /\ elevations = << >> /\ currentTime = 0 /\ isPassActive = FALSE
  /\ currentPass = None /\ passes = << >> /\ profile = None

PlannerIdle ==
  /\ stations = None /\ selectedDebris = None /\ missionResults = None
  /\ calculating = None /\ showResults = None /\ timers = None
  /\ alerts = None /\ now = None /\ mission = None /\ track = None

Init ==
  /\ \E mat \in MaterialNames, body \in BodyChoices, initialTemp \in InitialTemps :
       tracker = NewTracker(mat, body.mass, body.area, initialTemp)
  /\ lastCall = [op |-> "constructor"]
  /\ nCalls = 0
  /\ debris = None /\ validation = None /\ pc = "tracker"
  /\ CampaignIdle /\ ScanIdle /\ PlannerIdle

ApplyHeating ==
  /\ pc = "tracker" /\ nCalls < MaxCalls
  /\ \E numPulses \in PulseChoices, fluence \in FluenceChoices :
       \E heating \in { applyHeating(tracker, numPulses, fluence, 60 * nCalls) } :
           /\ tracker' = heating.tracker
           /\ lastCall' = [ op |-> "applyHeating", numPulses |-> numPulses,
                            fluence |-> fluence, result |-> heating.result ]
  /\ nCalls' = nCalls + 1
  /\ UNCHANGED <<debris, campaignVars, validation, scanVars, plannerVars, pc>>

ApplyCooling ==
  /\ pc = "tracker" /\ nCalls < MaxCalls
  /\ \E cooldownTime \in CooldownChoices :
       \E cooling \in { applyCooling(tracker, cooldownTime) } :
           /\ tracker' = cooling.tracker
           /\ lastCall' = [ op |-> "applyCooling", cooldownTime |-> cooldownTime,
                            result |-> cooling.result ]
  /\ nCalls' = nCalls + 1
  /\ UNCHANGED <<debris, campaignVars, validation, scanVars, plannerVars, pc>>

Next == ApplyHeating \/ ApplyCooling

Spec == Init /\ [][Next]_vars

\* C1: in every state reached by applyHeating (pulses >= 0, fluence >= 0) and
\* applyCooling (elapsed >= 0) calls on a tracker constructed with
\* currentTemp = ambientTemp, the temperature is at or above ambient, within
\* maxTempRise of it, and below the melting point.
ThermalEnvelope ==
  /\ tracker.ambientTemp <= tracker.currentTemp
  /\ tracker.currentTemp - tracker.ambientTemp <= tracker.maxTempRise
  /\ tracker.currentTemp < tracker.meltingPoint

\* a tracker that was heated, partly cooled and heated again
ThermalEnvelopeWitness ==
  /\ nCalls = MaxCalls
  /\ lastCall.op = "applyHeating" /\ lastCall.result.success
  /\ Len(tracker.heatHistory) = 2
  /\ tracker.heatHistory[1].temperature > tracker.ambientTemp
  /\ tracker.currentTemp - tracker.heatHistory[2].tempRise
       < tracker.heatHistory[1].temperature
  /\ tracker.currentTemp > tracker.heatHistory[1].temperature

\* C2: a rejected applyHeating call leaves currentTemp and heatHistory
\* exactly as they were before the call.
RejectionLeavesTrackerAlone ==
  [][ (lastCall'.op = "applyHeating" /\ ~lastCall'.result.success)
        => /\ tracker'.currentTemp = tracker.currentTemp
           /\ tracker'.heatHistory = tracker.heatHistory ]_vars

\* a call rejected on a tracker that already holds heat and a history
RejectionWitness ==
  /\ lastCall.op = "applyHeating" /\ ~lastCall.result.success
  /\ tracker.currentTemp > tracker.ambientTemp
  /\ Len(tracker.heatHistory) > 0
  /\ lastCall.result.attemptedTemp > tracker.currentTemp

\* C3: applyCooling (elapsed >= 0) never increases |currentTemp - ambientTemp|,
\* and an accepted applyHeating never decreases currentTemp.
ThermalMonotonicity ==
  [][ /\ lastCall'.op = "applyCooling"
        => Abs(tracker'.currentTemp - tracker'.ambientTemp)
             <= Abs(tracker.currentTemp - tracker.ambientTemp)
      /\ (lastCall'.op = "applyHeating" /\ lastCall'.result.success)
        => tracker'.currentTemp >= tracker.currentTemp ]_vars

\* a tracker that holds heat, was cooled part of the way down to ambient,
\* after an accepted heating that raised its temperature
MonotonicityWitness ==
  /\ lastCall.op = "applyCooling"
  /\ Len(tracker.heatHistory) > 0
  /\ tracker.currentTemp > tracker.ambientTemp
  /\ tracker.currentTemp < tracker.heatHistory[Len(tracker.heatHistory)].temperature

---------------------------------------------------------------------------
(* simulateLaserPass called on a debris object and its tracker *)

MaxPassCalls == 2

\* the DLR laser of exampleMission, and a long-pulse laser whose intensity
\* stays below the limit for large objects
DLRLaser ==
  [ pulseEnergy         |-> PHYSICS_CONSTANTS.LASER.PULSE_ENERGY,
    wavelength          |-> PHYSICS_CONSTANTS.LASER.WAVELENGTH,
    pulseDuration       |-> PHYSICS_CONSTANTS.LASER.PULSE_DURATION,
    transmitterDiameter |-> PHYSICS_CONSTANTS.LASER.TRANSMITTER_DIAMETER,
    beamQuality         |-> PHYSICS_CONSTANTS.LASER.BEAM_QUALITY,
    repetitionRate      |-> [num |-> 5, den |-> 1] ]
LongPulseLaser == [DLRLaser EXCEPT !.pulseDuration = 10^8]
LaserChoices == {DLRLaser, LongPulseLaser}
RepetitionRates == { [num |-> 0, den |-> 1], [num |-> 5, den |-> 1] }

\* the fragment of exampleMission; a 6 m spent stage; a fragment in a low
\* orbit that leaves visibilityDuration unset
ExampleDebris ==
  [ size |-> 50, mass |-> 15, area |-> 1000,
    semiMajorAxis |-> 7178000, eccentricity |-> 1000,
    perigeeAltitude |-> 799000, apogeeAltitude |-> 801000,
    visibilityDuration |-> 300, cumulativeDeltaV |-> 0 ]
LargeDebris ==
  [ size |-> 600, mass |-> 1000, area |-> 100000,
    semiMajorAxis |-> 7178000, eccentricity |-> 1000,
    perigeeAltitude |-> 799822, apogeeAltitude |-> 814178,
    visibilityDuration |-> 300, cumulativeDeltaV |-> 0 ]
LowDebris ==
  [ size |-> 50, mass |-> 15, area |-> 1000,
    semiMajorAxis |-> 6900000, eccentricity |-> 2000,
    perigeeAltitude |-> 515200, apogeeAltitude |-> 542800,
    visibilityDuration |-> 0, cumulativeDeltaV |-> 0 ]
DistanceChoices == {700000, 900000}

InitPass ==
  /\ debris \in {ExampleDebris, LargeDebris, LowDebris}
  /\ \E mat \in {"ALUMINUM", "MLI"} :
       tracker = NewTracker(mat, debris.mass, debris.area, 270)
  /\ lastCall = [op |-> "constructor"]
  /\ nCalls = 0
  /\ validation = None /\ pc = "pass"
  /\ CampaignIdle /\ ScanIdle /\ PlannerIdle

SimulateLaserPass ==
  /\ pc = "pass" /\ nCalls < MaxPassCalls
  /\ \E laser \in LaserChoices, rate \in RepetitionRates,
        distance \in DistanceChoices :
       \E params \in { [laser EXCEPT !.repetitionRate = rate] } :
       \E sim \in { simulateLaserPass(debris, params, distance, tracker,
                                      60 * nCalls) } :
           /\ tracker' = sim.tracker
           /\ lastCall' = [ op |-> "simulateLaserPass", laserParams |-> params,
                            distance |-> distance, result |-> sim.result ]
  /\ nCalls' = nCalls + 1
  /\ UNCHANGED <<debris, campaignVars, validation, scanVars, plannerVars, pc>>

\* the caller takes over the updated debris of a successful pass
AdoptUpdatedDebris ==
  /\ pc = "pass"
  /\ lastCall.op = "simulateLaserPass" /\ lastCall.result.success
  /\ debris' = [lastCall.result.updatedDebris
                  EXCEPT !.cumulativeDeltaV = lastCall.result.cumulativeDeltaV]
  /\ lastCall' = [op |-> "adopt"]
  /\ UNCHANGED <<tracker, nCalls, campaignVars, validation, scanVars, plannerVars, pc>>

NextPass == SimulateLaserPass \/ AdoptUpdatedDebris

SpecPass == InitPass /\ [][NextPass]_vars

\* C7: for a debris with size > 5 m and a laser configuration whose intensity
\* exceeds 100 x the solar constant (in W/cm^2), simulateLaserPass returns
\* success:false with reason INTENSITY_TOO_HIGH and leaves the tracker
\* (currentTemp, heatHistory) and the debris orbital elements unchanged.
IntensityGate ==
  [][ ( /\ lastCall'.op = "simulateLaserPass"
        /\ debris.size > 500
        /\ calculateIntensity(
             lastCall'.laserParams.pulseEnergy,
             lastCall'.laserParams.pulseDuration,
             calculateBeamRadius(lastCall'.distance,
                                 lastCall'.laserParams.wavelength,
                                 lastCall'.laserParams.transmitterDiameter,
                                 lastCall'.laserParams.beamQuality))
             > maxIntensity )
      => /\ ~lastCall'.result.success
         /\ lastCall'.result.reason = "INTENSITY_TOO_HIGH"
         /\ tracker'.currentTemp = tracker.currentTemp
         /\ tracker'.heatHistory = tracker.heatHistory
         /\ "updatedDebris" \notin DOMAIN lastCall'.result
         /\ debris' = debris ]_vars

\* a large object that was engaged once with an admissible laser, whose
\* updated orbit the caller took over, and was then refused the DLR laser
IntensityGateWitness ==
  /\ pc = "pass"
  /\ lastCall.op = "simulateLaserPass"
  /\ debris.size > 500
  /\ ~lastCall.result.success
  /\ lastCall.result.reason = "INTENSITY_TOO_HIGH"
  /\ lastCall.result.intensity > maxIntensity
  /\ tracker.currentTemp > tracker.ambientTemp
  /\ Len(tracker.heatHistory) = 1
  /\ debris.cumulativeDeltaV > 0

---------------------------------------------------------------------------
(* planRemovalCampaign, one loop iteration per step *)

MaxPasses == 3

\* seconds between consecutive passes
GapChoices == {0, 5400, 43200}

RECURSIVE PassTimesOfLength(_)
PassTimesOfLength(n) ==
  IF n = 0 THEN { << >> }
  ELSE IF n = 1 THEN { <<0>> }
  ELSE { Append(times, times[Len(times)] + gap) :
           times \in PassTimesOfLength(n - 1), gap \in GapChoices }

PassTimeChoices == UNION { PassTimesOfLength(n) : n \in 0..MaxPasses }

\* a fragment that one full pass of the DLR laser brings down to a perigee
\* of exactly REENTRY_ALTITUDE, and a debris object whose area is not positive
BoundaryDebris ==
  [ size |-> 50, mass |-> 15, area |-> 1000,
    semiMajorAxis |-> 6955711, eccentricity |-> 1500,
    perigeeAltitude |-> 574277, apogeeAltitude |-> 595144,
    visibilityDuration |-> 300, cumulativeDeltaV |-> 0 ]
FlatDebris == [ExampleDebris EXCEPT !.area = 0]
CampaignDebris ==
  {ExampleDebris, LargeDebris, LowDebris, BoundaryDebris, FlatDebris}

InitCampaign ==
  /\ debris \in CampaignDebris
  /\ laserParams \in LaserChoices
  /\ passTimes \in PassTimeChoices
  /\ material \in MaterialNames
  /\ tracker = NewTracker(material, debris.mass, debris.area, 270)
  /\ currentDebris = [debris EXCEPT !.cumulativeDeltaV = 0]
  /\ passResults = << >>
  /\ totalPulses = 0
  /\ totalEnergy = 0
  /\ missionComplete = FALSE
  /\ i = 0
  /\ report = None
  /\ heap = None /\ runs = None
  /\ lastCall = [op |-> "constructor"] /\ nCalls = 0
  /\ validation = None /\ pc = "loop"
  /\ ScanIdle /\ PlannerIdle

\* the loop stopping one pass short of the list
LoopStopsShort == i < Len(passTimes) - 1 /\ ~missionComplete

\* the condition of the for loop
LoopContinues == i < Len(passTimes) /\ ~missionComplete

\* the record pushed for a skipped pass
SkippedPass(passNumber, timestamp, reason, thermalTracker) ==
  [ passNumber |-> passNumber, timestamp |-> timestamp, skipped |-> TRUE,
    reason |-> reason, thermalStatus |-> getStatus(thermalTracker) ]

\* the locals of planRemovalCampaign, with the objects they refer to
CampaignLocals ==
  [ i |-> i, tracker |-> tracker, currentDebris |-> currentDebris,
    passResults |-> passResults, totalPulses |-> totalPulses,
    totalEnergy |-> totalEnergy, missionComplete |-> missionComplete,
    laserParams |-> laserParams, passTimes |-> passTimes ]

(* The body of the for loop, statement by statement, as the locals s it
   leaves; each operator takes the values computed so far *)

\* the locals after the pass at index s.i was skipped with the entry pushed
StepSkipped(s, thermalTracker, entry) ==
  [s EXCEPT !.tracker = thermalTracker,
            !.passResults = Append(@, entry),
            !.i = @ + 1]

\* "Update mission state" and "Record pass results"; updated is the object
\* passResult.updatedDebris after the assignment to its cumulativeDeltaV,
\* which shows in the recorded result
StepAccepted(s, timestamp, repRateResult, sim, updated) ==
  [s EXCEPT !.tracker = sim.tracker,
            !.currentDebris = updated,
            !.totalPulses = @ + sim.result.pulsesDelivered,
            !.totalEnergy = @ + sim.result.energyDelivered,
            !.passResults = Append(@,
               [sim.result EXCEPT !.updatedDebris = updated]
                 @@ [ passNumber |-> s.i + 1, timestamp |-> timestamp,
                      skipped |-> FALSE, repRateInfo |-> repRateResult ]),
            !.missionComplete = sim.result.reentryAchieved,
            !.i = @ + 1]

\* if (!passResult.success) ... continue
StepSimulated(s, timestamp, repRateResult, sim) ==
  IF ~sim.result.success
  THEN StepSkipped(s, sim.tracker,
                   SkippedPass(s.i + 1, timestamp, sim.result.reason, sim.tracker))
  ELSE StepAccepted(s, timestamp, repRateResult, sim,
                    [sim.result.updatedDebris
                       EXCEPT !.cumulativeDeltaV = sim.result.cumulativeDeltaV])

\* the cooldown test, and the pass simulated with the adaptive rate
StepCooledDown(s, timestamp, distance, cooled, repRateResult, requiredCooldown) ==
  IF s.i > 0 /\ requiredCooldown # NaN
             /\ requiredCooldown > timestamp - s.passTimes[s.i]
  THEN StepSkipped(s, cooled,
         SkippedPass(s.i + 1, timestamp, "INSUFFICIENT_COOLDOWN", cooled)
           @@ [ requiredCooldown |-> requiredCooldown,
                actualCooldown |-> timestamp - s.passTimes[s.i] ])
  ELSE StepSimulated(s, timestamp, repRateResult,
         simulateLaserPass(s.currentDebris,
           [s.laserParams EXCEPT !.repetitionRate = repRateResult.repetitionRate],
           distance, cooled, timestamp))

StepRated(s, timestamp, distance, cooled, fluence, repRateResult) ==
  StepCooledDown(s, timestamp, distance, cooled, repRateResult,
    calculateRequiredCooldown(cooled, repRateResult.pulsesPerPass, fluence))

StepLit(s, timestamp, distance, cooled, fluence) ==
  StepRated(s, timestamp, distance, cooled, fluence,
    calculateAdaptiveRepRate(s.currentDebris, fluence, cooled,
                             PassDuration(s.currentDebris)))

\* distance and fluence; with a NaN altitude every quantity derived from it
\* is NaN and every comparison with it false, down to applyHeating's isSafe
StepCooled(s, timestamp, cooled) ==
  IF s.currentDebris.perigeeAltitude = NaN \/ s.currentDebris.apogeeAltitude = NaN
  THEN StepSkipped(s, cooled,
         SkippedPass(s.i + 1, timestamp, "TEMP_LIMIT_EXCEEDED", cooled))
  ELSE StepLit(s, timestamp,
         (s.currentDebris.perigeeAltitude + s.currentDebris.apogeeAltitude) \div 2
           + 100000,
         cooled,
         calculateFluence(s.laserParams.pulseEnergy,
           calculateBeamRadius(
             (s.currentDebris.perigeeAltitude + s.currentDebris.apogeeAltitude) \div 2
               + 100000,
             s.laserParams.wavelength, s.laserParams.transmitterDiameter,
             s.laserParams.beamQuality),
           PHYSICS_CONSTANTS.ATMOSPHERE.TRANSMISSION_EFFICIENCY))

\* the body of the for loop, for the pass at index s.i (from 0)
CampaignStep(s) ==
  StepCooled(s, s.passTimes[s.i + 1],
             IF s.i > 0
             THEN applyCooling(s.tracker,
                               s.passTimes[s.i + 1] - s.passTimes[s.i]).tracker
             ELSE s.tracker)

\* the body of the for loop, for the pass at index i (from 0)
PassStep ==
  /\ pc = "loop"
  /\ LoopContinues
  /\ \E s \in { CampaignStep(CampaignLocals) } :
       /\ tracker' = s.tracker
       /\ currentDebris' = s.currentDebris
       /\ passResults' = s.passResults
       /\ totalPulses' = s.totalPulses
       /\ totalEnergy' = s.totalEnergy
       /\ missionComplete' = s.missionComplete
       /\ i' = s.i
  /\ UNCHANGED <<lastCall, nCalls, debris, laserParams, passTimes, material,
                 report, heap, runs, validation, scanVars, plannerVars, pc>>

\* totalEnergy in J (1e-9 GJ), duration in s (1/86400 day) or NaN; costs in
\* 0.001 USD
MissionCostOf(electricityCost, operatingCost, duration) ==
  LET totalCost == electricityCost + operatingCost
  IN  IF duration = NaN
      THEN [ electricityCost |-> electricityCost, operatingCost |-> NaN,
             totalCost |-> NaN, costPerKm |-> NaN,
             comparisonToSpacecraft |-> NaN ]
      ELSE [ electricityCost |-> electricityCost,
             operatingCost   |-> operatingCost,
             totalCost       |-> totalCost,
             costPerKm       |-> IF duration = 0 /\ totalCost = 0 THEN NaN
                                 ELSE MulDiv(totalCost, 8640, duration),
             \* 100e6 / totalCost, in thousandths
             comparisonToSpacecraft |-> MulDiv(10^9, 100000, totalCost) ]

calculateMissionCost(energy, duration) ==
  MissionCostOf(MulDiv(energy \div 10^4, 277778, 10^5) \div 10,  \* via 1e-4 kWh
                IF duration = NaN THEN NaN
                ELSE MulDiv(5000 * 1000, duration, 86400),
                duration)

\* Math.max(...heatHistory.map(h => h.temperature))
maxTempReached(heatHistory) ==
  IF heatHistory = << >> THEN 0 - Infinity
  ELSE CHOOSE m \in { heatHistory[k].temperature : k \in 1..Len(heatHistory) } :
         \A k \in 1..Len(heatHistory) : heatHistory[k].temperature <= m

\* the object planRemovalCampaign returns for the locals s after the loop
\* and its argument debris
CampaignReport(s, deb) ==
  LET successfulPasses == SelectSeq(s.passResults, LAMBDA p : ~p.skipped)
      \* passTimes[passTimes.length - 1] / 86400, in s
      missionDuration  == IF s.passTimes = << >> THEN NaN
                          ELSE s.passTimes[Len(s.passTimes)]
  IN  [ missionComplete    |-> s.missionComplete,
        missionDuration    |-> missionDuration,
        totalPasses        |-> Len(s.passTimes),
        successfulPasses   |-> Len(successfulPasses),
        skippedPasses      |-> Len(s.passResults) - Len(successfulPasses),
        totalPulses        |-> s.totalPulses,
        totalEnergy        |-> s.totalEnergy,        \* in 1e-9 GJ
        totalDeltaV        |-> s.currentDebris.cumulativeDeltaV,
        finalDebris        |-> s.currentDebris,
        finalPerigee       |-> s.currentDebris.perigeeAltitude,
        finalApogee        |-> s.currentDebris.apogeeAltitude,
        perigeeReduction   |->
          IF s.currentDebris.perigeeAltitude = NaN THEN NaN
          ELSE deb.perigeeAltitude - s.currentDebris.perigeeAltitude,
        finalThermalStatus |-> getStatus(s.tracker),
        maxTempReached     |-> maxTempReached(s.tracker.heatHistory),
        passResults        |-> s.passResults,
        estimatedCost      |-> calculateMissionCost(s.totalEnergy,
                                                    missionDuration) ]

\* the statements after the loop
Finish ==
  /\ pc = "loop"
  /\ ~LoopContinues
  /\ report' = CampaignReport(CampaignLocals, debris)
  /\ pc' = "done"
  /\ UNCHANGED <<apiVars, debris, laserParams, passTimes, material, i,
                 currentDebris, passResults, totalPulses, totalEnergy,
                 missionComplete, heap, runs, validation, scanVars, plannerVars>>

NextCampaign == PassStep \/ Finish

SpecCampaign == InitCampaign /\ [][NextCampaign]_vars

\* the pass results recorded so far that were not skipped
Accepted(results) == SelectSeq(results, LAMBDA p : ~p.skipped)

\* C4: planRemovalCampaign completes (missionComplete = true) exactly when an
\* accepted pass leaves the perigee altitude < 200 km, and once it has
\* completed no later pass is processed: no further cooling, heating, orbital
\* update or passResults entry.
CompletesBelowThreshold ==
  [][ /\ missionComplete' <=>
           \E k \in 1..Len(passResults') :
             /\ ~passResults'[k].skipped
             /\ passResults'[k].updatedDebris.perigeeAltitude # NaN
             /\ passResults'[k].updatedDebris.perigeeAltitude
                  < PHYSICS_CONSTANTS.ORBITAL.REENTRY_ALTITUDE
      /\ missionComplete =>
           UNCHANGED <<tracker, currentDebris, passResults, totalPulses,
                       totalEnergy, i>> ]_vars

\* a campaign that completed on a pass that left the perigee at 200 km
CompletedAtThreshold ==
  /\ pc = "done" /\ report.missionComplete
  /\ Len(passResults) < Len(passTimes)
  /\ ~passResults[Len(passResults)].skipped
  /\ report.finalPerigee = PHYSICS_CONSTANTS.ORBITAL.REENTRY_ALTITUDE

RECURSIVE SumOf(_, _)
SumOf(results, field) ==
  IF results = << >> THEN 0
  ELSE SumOf(SubSeq(results, 1, Len(results) - 1), field)
         + results[Len(results)][field]

\* C5: at every point of a planRemovalCampaign run, totalPulses, totalEnergy
\* and the cumulative delta-V equal the sums of pulsesDelivered,
\* energyDelivered and totalDeltaV over the non-skipped pass results recorded
\* so far, and the current orbital elements are those output by the most
\* recent accepted pass (the initial ones if none); a skipped pass changes
\* none of them and the loop goes on to the next pass.
TotalsFollowAcceptedPasses ==
  LET accepted == Accepted(passResults)
      elements == IF accepted = << >> THEN debris
                  ELSE accepted[Len(accepted)].updatedDebris
  IN  /\ totalPulses = SumOf(accepted, "pulsesDelivered")
      /\ totalEnergy = SumOf(accepted, "energyDelivered")
      /\ currentDebris.cumulativeDeltaV = SumOf(accepted, "totalDeltaV")
      /\ currentDebris.semiMajorAxis = elements.semiMajorAxis
      /\ currentDebris.eccentricity = elements.eccentricity
      /\ currentDebris.perigeeAltitude = elements.perigeeAltitude
      /\ currentDebris.apogeeAltitude = elements.apogeeAltitude
      /\ ( /\ pc = "loop"
            /\ Len(passResults) > 0
            /\ passResults[Len(passResults)].skipped )
           => /\ i = Len(passResults)
              /\ i < Len(passTimes) => LoopContinues

\* two accepted passes with a skipped pass between them
TotalsWitness ==
  /\ Len(passResults) = 3
  /\ ~passResults[1].skipped /\ passResults[2].skipped /\ ~passResults[3].skipped
  /\ passResults[1].totalDeltaV > 0 /\ passResults[3].totalDeltaV > 0
  /\ ~missionComplete

\* C6: when planRemovalCampaign ends, passResults holds exactly one entry for
\* every pass index that was processed (all of passTimes when the campaign
\* ends incomplete, passes 1..k when it completed at pass k), in increasing
\* passNumber order; every skipped entry has skipped = true and a reason code
\* of SkipReasons; successfulPasses + skippedPasses is the number of entries.
ReportHoldsEveryProcessedPass ==
  pc = "done" =>
    LET results == report.passResults
    IN  /\ \A k \in 1..Len(results) :
             /\ results[k].passNumber = k
             /\ results[k].timestamp = passTimes[k]
             /\ IF results[k].skipped
                THEN results[k].reason \in SkipReasons
                ELSE results[k].success
        /\ ~report.missionComplete => Len(results) = Len(passTimes)
        /\ report.missionComplete =>
             /\ Len(results) \in 1..Len(passTimes)
             /\ ~results[Len(results)].skipped
             /\ results[Len(results)].reentryAchieved
             /\ \A k \in 1..(Len(results) - 1) :
                  results[k].skipped \/ ~results[k].reentryAchieved
        /\ report.successfulPasses + report.skippedPasses = Len(results)
        /\ report.successfulPasses = Len(Accepted(results))

\* a finished campaign whose report holds skipped and accepted passes
ReportWitness ==
  /\ pc = "done"
  /\ Len(report.passResults) = 3
  /\ report.successfulPasses = 2 /\ report.skippedPasses = 1
  /\ report.passResults[2].skipped

\* C8: when the debris has non-positive mass or area, eccentricity outside
\* [0,1), or semi-major axis at or below Earth's surface, planRemovalCampaign
\* processes no pass at all (no cooling, no heating, no orbital update) and
\* reports the violations instead.
InvalidDebrisRunsNoPass ==
  ( \/ debris.mass <= 0
    \/ debris.area <= 0
    \/ debris.eccentricity < 0 \/ debris.eccentricity >= Ppm
    \/ debris.semiMajorAxis <= PHYSICS_CONSTANTS.ORBITAL.EARTH_RADIUS )
  => /\ passResults = << >>
     /\ tracker.heatHistory = << >>
     /\ currentDebris.semiMajorAxis = debris.semiMajorAxis
     /\ pc = "done" => "errors" \in DOMAIN report

\* a campaign on a debris object of area 0 that delivered pulses and moved
\* the orbit
InvalidDebrisEngaged ==
  /\ debris.area <= 0
  /\ pc = "done"
  /\ report.successfulPasses > 0
  /\ report.totalPulses > 0
  /\ report.finalPerigee < debris.perigeeAltitude

---------------------------------------------------------------------------
(* validateDebrisParameters called on a debris object *)

\* the value of a field the object does not have
Undefined == NaN - 1

\* !x for a number or a missing field
Falsy(x) == x = Undefined \/ x = NaN \/ x = 0

\* x < y, x <= y, x > y, x >= y for numbers or missing fields: a comparison
\* with undefined or NaN is false
Lt(x, y) == x \notin {Undefined, NaN} /\ y \notin {Undefined, NaN} /\ x < y
Le(x, y) == x \notin {Undefined, NaN} /\ y \notin {Undefined, NaN} /\ x <= y
Gt(x, y) == Lt(y, x)
Ge(x, y) == Le(y, x)

\* the sign of area / mass (m^2/kg) compared with bound / 1000, as -1, 0, 1;
\* NaN when the quotient is NaN.  area in cm^2, mass in kg.
CompareAreaToMass(area, mass, bound) ==
  IF area \in {Undefined, NaN} \/ mass \in {Undefined, NaN} THEN NaN
  ELSE IF mass = 0
       THEN IF area = 0 THEN NaN ELSE IF area > 0 THEN 1 ELSE 0 - 1
  ELSE LET lhs == IF mass > 0 THEN area ELSE 0 - area
           rhs == 10 * bound * Abs(mass)
       IN  IF lhs < rhs THEN 0 - 1 ELSE IF lhs > rhs THEN 1 ELSE 0

\* areaToMass.toFixed(3), in thousandths; Infinity or -Infinity for x/0
ToFixed3(area, mass) ==
  IF mass = 0 THEN (IF area > 0 THEN Infinity ELSE 0 - Infinity)
  ELSE LET n == (2 * Abs(area) + 10 * Abs(mass)) \div (20 * Abs(mass))
       IN  IF (area < 0) # (mass < 0) THEN 0 - n ELSE n

\* seq with e appended when cond holds
PushIf(seq, cond, e) == IF cond THEN Append(seq, e) ELSE seq

validateDebrisParameters(deb) ==
  LET e1 == PushIf(<< >>, Falsy(deb.mass) \/ Le(deb.mass, 0),
                   "Mass must be positive")
      e2 == PushIf(e1, Falsy(deb.area) \/ Le(deb.area, 0),
                   "Cross-sectional area must be positive")
      e3 == PushIf(e2, Falsy(deb.semiMajorAxis)
                         \/ Le(deb.semiMajorAxis,
                               PHYSICS_CONSTANTS.ORBITAL.EARTH_RADIUS),
                   "Semi-major axis must be above Earth surface")
      errors == PushIf(e3, Lt(deb.eccentricity, 0) \/ Ge(deb.eccentricity, Ppm),
                       "Eccentricity must be between 0 and 1")
      low  == CompareAreaToMass(deb.area, deb.mass, 1)
      high == CompareAreaToMass(deb.area, deb.mass, 1000)
      w1 == PushIf(<< >>, low # NaN /\ (low < 0 \/ high > 0),
                   [ text     |-> "Unusual area-to-mass ratio",
                     toFixed3 |-> ToFixed3(deb.area, deb.mass) ])
      w2 == PushIf(w1, Lt(deb.perigeeAltitude,
                          PHYSICS_CONSTANTS.ORBITAL.REENTRY_ALTITUDE),
                   "Perigee already below re-entry altitude")
      w3 == PushIf(w2, Gt(deb.perigeeAltitude, 2000000),
                   "Very high orbit - removal may take years")
      warnings == PushIf(w3, Lt(deb.size, PHYSICS_CONSTANTS.SAFETY.MIN_DEBRIS_SIZE),
                         "Debris may be too small to track accurately")
  IN  [ valid |-> Len(errors) = 0, errors |-> errors, warnings |-> warnings ]

\* values of the fields of the objects validated: kg, cm^2, m, ppm, m, cm
MassChoices == {Undefined, 0 - 5, 0, 15}
AreaChoices == {Undefined, 0 - 1000, 0, 1000, 200000}
SemiMajorAxisChoices ==
  {Undefined, PHYSICS_CONSTANTS.ORBITAL.EARTH_RADIUS, 7178000}
EccentricityChoices == {Undefined, 0 - 1000, 0, 1000, Ppm}
PerigeeChoices == {Undefined, 150000, 799000, 2500000}
SizeChoices == {5, 50}

InitValidate ==
  /\ debris \in [ mass : MassChoices, area : AreaChoices,
                  semiMajorAxis : SemiMajorAxisChoices,
                  eccentricity : EccentricityChoices,
                  perigeeAltitude : PerigeeChoices, size : SizeChoices ]
  /\ validation = None /\ pc = "validate"
  /\ tracker = None /\ lastCall = [op |-> "none"] /\ nCalls = 0
  /\ CampaignIdle /\ ScanIdle /\ PlannerIdle

Validate ==
  /\ pc = "validate"
  /\ validation' = validateDebrisParameters(debris)
  /\ pc' = "validated"
  /\ UNCHANGED <<apiVars, debris, campaignVars, scanVars, plannerVars>>

NextValidate == Validate

SpecValidate == InitValidate /\ [][NextValidate]_vars

\* C9: validateDebrisParameters reports all violations together: its errors
\* list holds one entry for every violated rule among {mass not positive, area
\* not positive, semi-major axis at or below Earth radius, eccentricity
\* outside [0,1)}, a missing field violating its rule, and valid is true if
\* and only if no rule is violated.
AllViolationsReported ==
  pc = "validated" =>
    LET massViolated == debris.mass = Undefined \/ debris.mass <= 0
        areaViolated == debris.area = Undefined \/ debris.area <= 0
        axisViolated ==
          \/ debris.semiMajorAxis = Undefined
          \/ debris.semiMajorAxis <= PHYSICS_CONSTANTS.ORBITAL.EARTH_RADIUS
        eccentricityViolated ==
          \/ debris.eccentricity = Undefined
          \/ debris.eccentricity < 0 \/ debris.eccentricity >= Ppm
        reported(message) ==
          Cardinality({ k \in 1..Len(validation.errors) :
                          validation.errors[k] = message })
        count(violated) == IF violated THEN 1 ELSE 0
    IN  /\ reported("Mass must be positive") = count(massViolated)
        /\ reported("Cross-sectional area must be positive") = count(areaViolated)
        /\ reported("Semi-major axis must be above Earth surface")
             = count(axisViolated)
        /\ reported("Eccentricity must be between 0 and 1")
             = count(eccentricityViolated)
        /\ Len(validation.errors)
             = count(massViolated) + count(areaViolated) + count(axisViolated)
                 + count(eccentricityViolated)
        /\ validation.valid <=>
             ~(massViolated \/ areaViolated \/ axisViolated \/ eccentricityViolated)

\* an object without eccentricity that is otherwise in order is found valid
MissingEccentricityAccepted ==
  /\ pc = "validated"
  /\ debris.eccentricity = Undefined
  /\ debris.mass > 0 /\ debris.area > 0
  /\ debris.semiMajorAxis > PHYSICS_CONSTANTS.ORBITAL.EARTH_RADIUS
  /\ validation.valid /\ validation.errors = << >>

---------------------------------------------------------------------------
(* calculateVisibilityWindows, one sample of the while loop per step.  The
   look angles come from satellite.js: each sample's elevation and azimuth
   is an input. *)

\* number of samples before endDate
HorizonSteps == 6

\* timeStepInMinutes, in ms
timeStep == 60000
endDate == HorizonSteps * timeStep

\* degrees
MinElevationChoices == {20, 30}
ElevationChoices == {10, 20, 30, 45}
AzimuthChoices == {0, 180}

\* satellite.propagate on an orbit it cannot propagate gives position: false
\* and velocity: false (the outcome propagateWithLaserPasses tests for);
\* eciToEcf and ecfToLookAngles then compute with undefined coordinates, and
\* elevationDeg is NaN
FailedElevation == NaN

\* the elevation at time t (ms) of a target that is above every threshold
\* from p.start on, for p.length ms
ElevationAt(p, t) ==
  IF p.start <= t /\ t < p.start + p.length
  THEN PHYSICS_CONSTANTS.ORBITAL.MIN_ELEVATION_ANGLE + 25
  ELSE PHYSICS_CONSTANTS.ORBITAL.MIN_ELEVATION_ANGLE - 10

\* what the look angles at currentTime can be
SampledElevations ==
  IF profile.kind = "crossing" THEN { ElevationAt(profile, currentTime) }
  ELSE ElevationChoices \cup {FailedElevation}

\* elevationDeg > minElevation, false for NaN
AboveThreshold(elevationDeg) ==
  elevationDeg # NaN /\ elevationDeg > minElevation

InitScan ==
  /\ minElevation \in MinElevationChoices
  /\ profile = [kind |-> "any"]
  /\ elevations = << >>
  /\ currentTime = 0
  /\ isPassActive = FALSE
  /\ currentPass = None
  /\ passes = << >>
  /\ pc = "scan"
  /\ tracker = None /\ lastCall = [op |-> "none"] /\ nCalls = 0
  /\ debris = None /\ validation = None
  /\ CampaignIdle /\ PlannerIdle

\* the body of the while loop
ScanStep ==
  /\ pc = "scan"
  /\ currentTime < endDate
  /\ \E elevationDeg \in SampledElevations, azimuth \in AzimuthChoices :
       /\ elevations' = Append(elevations, elevationDeg)
       /\ IF AboveThreshold(elevationDeg)
          THEN IF ~isPassActive
               THEN /\ isPassActive' = TRUE
                    /\ currentPass' = [ startTime    |-> currentTime,
                                        maxElevation |-> elevationDeg,
                                        azimuthStart |-> azimuth ]
                    /\ UNCHANGED passes
               ELSE /\ currentPass' =
                         IF elevationDeg > currentPass.maxElevation
                         THEN [currentPass EXCEPT !.maxElevation = elevationDeg]
                         ELSE currentPass
                    /\ UNCHANGED <<isPassActive, passes>>
          ELSE IF isPassActive
               THEN LET ended == [ endTime  |-> currentTime,
                                   duration |->
                                     (currentTime - currentPass.startTime) \div 1000 ]
                                   @@ currentPass
                    IN  /\ isPassActive' = FALSE
                        /\ passes' = IF ended.duration > 30
                                     THEN Append(passes, ended) ELSE passes
                        /\ currentPass' = None
               ELSE UNCHANGED <<isPassActive, currentPass, passes>>
  /\ currentTime' = currentTime + timeStep
  /\ UNCHANGED <<apiVars, debris, campaignVars, validation, plannerVars,
                 minElevation, profile, pc>>

\* the loop ends, a pass still open is closed at the horizon, and passes is
\* returned
ScanReturnClosingOpenPass ==
  /\ pc = "scan"
  /\ ~(currentTime < endDate)
  /\ passes' = IF isPassActive
                THEN Append(passes,
                            [ endTime  |-> currentTime,
                              duration |->
                                (currentTime - currentPass.startTime) \div 1000 ]
                              @@ currentPass)
                ELSE passes
  /\ pc' = "returned"
  /\ UNCHANGED <<apiVars, debris, campaignVars, validation, plannerVars,
                 minElevation, profile, elevations, currentTime, isPassActive,
                 currentPass>>

\* the loop ends and passes is returned
ScanReturn ==
  /\ pc = "scan"
  /\ ~(currentTime < endDate)
  /\ pc' = "returned"
  /\ UNCHANGED <<apiVars, debris, campaignVars, validation, scanVars, plannerVars>>

NextScan == ScanStep \/ ScanReturn

SpecScan == InitScan /\ [][NextScan]_vars

\* the time of the k-th sample
SampleTime(k) == (k - 1) * timeStep

\* the maximal runs a..b of consecutive samples with elevation > minElevation
\* that are followed by a sample whose elevation is not (NaN included), and of
\* these the ones that last more than 30 s up to the closing sample
ClosedRuns ==
  { run \in (1..Len(elevations)) \X (1..Len(elevations)) :
      /\ run[1] <= run[2]
      /\ \A k \in run[1]..run[2] : AboveThreshold(elevations[k])
      /\ run[1] > 1 => ~AboveThreshold(elevations[run[1] - 1])
      /\ run[2] < Len(elevations)
      /\ ~AboveThreshold(elevations[run[2] + 1]) }
EmittedRuns ==
  { run \in ClosedRuns :
      (SampleTime(run[2] + 1) - SampleTime(run[1])) \div 1000 > 30 }

\* C10: calculateVisibilityWindows returns, in chronological order, exactly
\* one pass for each maximal run of consecutive samples with elevation >
\* minElevation that is followed within the horizon by a sample with elevation
\* <= minElevation and lasts more than 30 s up to that closing sample; the
\* pass starts at the run's first sample, ends at the closing sample and has
\* the run's maximum elevation; a run still open at the horizon is not
\* emitted.  (A sample whose elevation is NaN is one that is not above.)
PassesAreClosedRuns ==
  pc = "returned" =>
    /\ Len(passes) = Cardinality(EmittedRuns)
    /\ \A k \in 1..Len(passes) :
         \E run \in EmittedRuns :
           /\ passes[k].startTime = SampleTime(run[1])
           /\ passes[k].endTime = SampleTime(run[2] + 1)
           /\ passes[k].maxElevation \in { elevations[j] : j \in run[1]..run[2] }
           /\ \A j \in run[1]..run[2] : elevations[j] <= passes[k].maxElevation
           /\ passes[k].duration * 1000 = passes[k].endTime - passes[k].startTime
    /\ \A k \in 1..(Len(passes) - 1) : passes[k].endTime < passes[k + 1].startTime

\* a returned scan with two passes, the first with its maximum after its
\* first sample, and a run still open at the horizon
PassesWitness ==
  /\ pc = "returned"
  /\ Len(passes) = 2
  /\ passes[1].maxElevation > elevations[1]
  /\ passes[1].duration > passes[2].duration
  /\ isPassActive
  /\ elevations[Len(elevations)] > minElevation

\* C11: if the propagator reports an unpropagable orbit at a sample, the scan
\* terminates there and the failure is surfaced as a distinguishable outcome:
\* no sample is taken after the failed one and the scan does not return a
\* list of passes.
FailureEndsScan ==
  \A k \in 1..Len(elevations) :
    elevations[k] = FailedElevation
      => (k = Len(elevations) /\ pc # "returned")

\* a scan that returned a pass list after a sample of it had failed inside
\* a pass
FailureSwallowed ==
  /\ pc = "returned"
  /\ Len(passes) = 1
  /\ \E k \in 2..Len(elevations) :
       /\ elevations[k] = FailedElevation
       /\ AboveThreshold(elevations[k - 1])
       /\ passes[1].endTime = SampleTime(k)

---------------------------------------------------------------------------
(* calculateVisibilityWindows on a target that crosses the threshold once *)

\* the crossing lasts 20 s or 40 s and starts at any multiple of 10 s within
\* two sampling steps
CrossingLengths == {20000, 40000}
CrossingStarts == { timeStep + 10000 * j : j \in 0..11 }

InitCrossing ==
  /\ minElevation = PHYSICS_CONSTANTS.ORBITAL.MIN_ELEVATION_ANGLE
  /\ profile \in [ kind : {"crossing"}, start : CrossingStarts,
                    length : CrossingLengths ]
  /\ elevations = << >>
  /\ currentTime = 0
  /\ isPassActive = FALSE
  /\ currentPass = None
  /\ passes = << >>
  /\ pc = "scan"
  /\ tracker = None /\ lastCall = [op |-> "none"] /\ nCalls = 0
  /\ debris = None /\ validation = None
  /\ CampaignIdle /\ PlannerIdle

SpecCrossing == InitCrossing /\ [][NextScan]_vars

\* C14: a profile above the threshold for exactly 20 s gives no pass; one
\* above it for exactly 40 s gives one pass, of 40 s within one sampling step
\* - wherever the crossing falls relative to the sampling instants.
CrossingFilter ==
  pc = "returned" =>
    /\ profile.length = 20000 => passes = << >>
    /\ profile.length = 40000 =>
         /\ Len(passes) = 1
         /\ Abs(passes[1].duration - 40) <= timeStep \div 1000

\* a 20 s crossing that a sampling instant falls into, returned as a pass of
\* one sampling step
ShortCrossingEmitted ==
  /\ pc = "returned"
  /\ profile.kind = "crossing" /\ profile.length = 20000
  /\ Len(passes) = 1
  /\ passes[1].duration = timeStep \div 1000

---------------------------------------------------------------------------
(* Perigee evolution (orbitalMechanics.js).  Lengths in m, speeds and
   delta-V in mm/s, squared speeds in 0.1 m^2/s^2, eccentricity in ppm *)

EARTH_RADIUS_KM == 6371000
MU_EARTH == 398600442                 \* in 1e6 m^3/s^2
RE_ENTRY_THRESHOLD_KM == 200000

isReEntryAchieved(perigeeAlt) == Lt(perigeeAlt, RE_ENTRY_THRESHOLD_KM)

\* v_apogee = Math.sqrt(MU_EARTH * (2/ra - 1/a)); the root of a negative
\* number is NaN, 1/a is 0 for an infinite a
ApogeeSpeed(a, ra) ==
  IF a = NaN THEN NaN
  ELSE IF a = Infinity THEN SqrtProd(MulDiv(2 * MU_EARTH, 10^7, ra), 10^5)
  ELSE IF a < 0
    THEN SqrtProd(MulDiv(MulDiv(MU_EARTH, ra - 2 * a, ra), 10^7, 0 - a), 10^5)
  ELSE IF 2 * a < ra THEN NaN
  ELSE SqrtProd(MulDiv(MulDiv(MU_EARTH, 2 * a - ra, ra), 10^7, a), 10^5)

\* v_new = v_apogee - dv / 1000
SpeedAfter(vApogee, dv) == IF vApogee = NaN THEN NaN ELSE vApogee - dv

\* 1 / d for d = 2/ra - v_new^2/MU_EARTH given as MU_EARTH * d, to
\* 0.4 m^2/s^2
AxisOver(d) ==
  IF d \div 4 = 0 THEN Infinity
  ELSE IF d > 0 THEN MulDiv(MU_EARTH, 25 * 10^5, d \div 4)
  ELSE 0 - Min(MulDiv(MU_EARTH, 25 * 10^5, (0 - d) \div 4), MaxInt \div 2)

\* a_new = 1 / (2/ra - v_new*v_new/MU_EARTH)
AxisAfter(ra, vNew) ==
  IF vNew = NaN THEN NaN
  ELSE AxisOver(MulDiv(2 * MU_EARTH, 10^7, ra)
                  - MulDiv(Abs(vNew), Abs(vNew), 10^5))

\* rp_new = 2 * a_new - ra
PerigeeRadius(a, ra) ==
  IF a = NaN THEN NaN
  ELSE IF a > MaxInt \div 2 THEN Infinity
  ELSE 2 * a - ra

\* e = (ra - rp) / (ra + rp)
EccentricityBetween(rp, ra) ==
  IF rp = NaN \/ rp = Infinity THEN NaN
  ELSE IF ra + rp = 0 THEN Infinity
  ELSE IF ra + rp < 0 THEN 0 - MulDiv(ra - rp, Ppm, 0 - (ra + rp))
  ELSE IF rp > ra THEN 0 - MulDiv(rp - ra, Ppm, ra + rp)
  ELSE MulDiv(ra - rp, Ppm, ra + rp)

\* r - EARTH_RADIUS_KM
AltitudeOf(r) == IF r = NaN \/ r = Infinity THEN r ELSE r - EARTH_RADIUS_KM

\* the entry pushed for the burn dv that leaves the semi-major axis aNew
EvolutionEntry(passNumber, aNew, ra, dv) ==
  [ passNumber    |-> passNumber,
    perigeeAlt    |-> AltitudeOf(PerigeeRadius(aNew, ra)),
    apogeeAlt     |-> AltitudeOf(ra),
    semiMajorAxis |-> aNew,
    eccentricity  |-> EccentricityBetween(PerigeeRadius(aNew, ra), ra),
    deltaV        |-> dv,
    reEntry       |-> Lt(AltitudeOf(PerigeeRadius(aNew, ra)),
                         RE_ENTRY_THRESHOLD_KM) ]

\* the locals a, ra and evolution before the first burn (rp and e are
\* functions of a and ra throughout)
TrackStart(initialPerigee, initialApogee) ==
  [ a  |-> (initialPerigee + initialApogee) \div 2 + EARTH_RADIUS_KM,
    ra |-> initialApogee + EARTH_RADIUS_KM,
    evolution |->
      << [ passNumber    |-> 0,
           perigeeAlt    |-> initialPerigee,
           apogeeAlt     |-> initialApogee,
           semiMajorAxis |-> (initialPerigee + initialApogee) \div 2
                               + EARTH_RADIUS_KM,
           eccentricity  |-> EccentricityBetween(
                               initialPerigee + EARTH_RADIUS_KM,
                               initialApogee + EARTH_RADIUS_KM) ] >> ]

\* the locals after the burn that leaves the semi-major axis aNew
TrackWith(t, aNew, dv) ==
  [ a  |-> aNew,
    ra |-> t.ra,
    evolution |-> Append(t.evolution,
                         EvolutionEntry(Len(t.evolution), aNew, t.ra, dv)) ]

\* one iteration of deltaVs.forEach
TrackBurn(t, dv) ==
  TrackWith(t, AxisAfter(t.ra, SpeedAfter(ApogeeSpeed(t.a, t.ra), dv)), dv)

RECURSIVE TrackFrom(_, _)
TrackFrom(t, deltaVs) ==
  IF deltaVs = << >> THEN t.evolution
  ELSE TrackFrom(TrackBurn(t, Head(deltaVs)), Tail(deltaVs))

trackPerigeeEvolution(initialPerigee, initialApogee, deltaVs) ==
  TrackFrom(TrackStart(initialPerigee, initialApogee), deltaVs)

\* estimateAtmosphericDecay; areaToMass in 0.001 m^2/kg, rho in
\* 1e-15 kg/km^3, decayRate in 1e-15 km/day, estimatedLifetime in 1e6 days
AtmosphericDensity(perigeeAlt) ==
  IF Gt(perigeeAlt, 600000) THEN 1
  ELSE IF Gt(perigeeAlt, 400000) THEN 100
  ELSE IF Gt(perigeeAlt, 300000) THEN 1000
  ELSE IF Gt(perigeeAlt, 200000) THEN 10000
  ELSE 100000

\* 0.5 * Cd * rho * areaToMass * v_perigee^2 * 86400 / 1000, with
\* v_perigee^2 = MU_EARTH / (EARTH_RADIUS_KM + perigeeAlt) in 0.001 km^2/s^2
DecayRate(perigeeAlt, areaToMass) ==
  IF perigeeAlt = NaN THEN NaN
  ELSE IF perigeeAlt = Infinity THEN 0
  ELSE IF perigeeAlt + EARTH_RADIUS_KM < 0 THEN
    0 - MulDiv(MulDiv(AtmosphericDensity(perigeeAlt) * areaToMass,
                      MulDiv(MU_EARTH, 1000, 0 - (perigeeAlt + EARTH_RADIUS_KM)),
                      10^4),
               9504, 10^4)
  ELSE MulDiv(MulDiv(AtmosphericDensity(perigeeAlt) * areaToMass,
                     MulDiv(MU_EARTH, 1000, perigeeAlt + EARTH_RADIUS_KM),
                     10^4),
              9504, 10^4)

\* (perigeeAlt - 100) / decayRate when decayRate > 0, else Infinity
LifetimeAt(perigeeAlt, decayRate) ==
  IF ~Gt(decayRate, 0) \/ perigeeAlt = Infinity THEN Infinity
  ELSE IF decayRate = Infinity THEN 0
  ELSE IF perigeeAlt < 100000
    THEN 0 - Min(MulDiv(100000 - perigeeAlt, 10^6, decayRate), MaxInt \div 2)
  ELSE MulDiv(perigeeAlt - 100000, 10^6, decayRate)

estimateAtmosphericDecay(perigeeAlt, areaToMass) ==
  [ decayRate         |-> DecayRate(perigeeAlt, areaToMass),
    estimatedLifetime |-> LifetimeAt(perigeeAlt,
                                     DecayRate(perigeeAlt, areaToMass)),
    naturalDecay      |-> Lt(perigeeAlt, 600000) ]

---------------------------------------------------------------------------
(* The mission planner (MissionPlanner.jsx) *)

\* mass in g, areaToMass in 0.001 m^2/kg, perigee and apogee in m
DEBRIS_CATALOG ==
  << [ id |-> 1, mass |-> 15000, material |-> "ALUMINUM", areaToMass |-> 20,
       perigee |-> 480000, apogee |-> 520000 ],
     [ id |-> 2, mass |-> 5000, material |-> "ALUMINUM", areaToMass |-> 30,
       perigee |-> 750000, apogee |-> 820000 ],
     [ id |-> 3, mass |-> 450000, material |-> "STEEL", areaToMass |-> 8,
       perigee |-> 380000, apogee |-> 410000 ],
     [ id |-> 4, mass |-> 500, material |-> "MLI", areaToMass |-> 50,
       perigee |-> 550000, apogee |-> 600000 ] >>

\* J, nm, ns, mm, tenths
LASER_PARAMS ==
  [ PULSE_ENERGY |-> 100000, WAVELENGTH |-> 1030, PULSE_DURATION |-> 5,
    TRANSMITTER_DIAMETER |-> 4000, BEAM_QUALITY |-> 12 ]

MATERIAL_PROPERTIES ==
  [ ALUMINUM |-> [ MAX_TEMP_RISE |-> 100, SPECIFIC_HEAT |-> 900, DENSITY |-> 2700 ],
    STEEL    |-> [ MAX_TEMP_RISE |-> 200, SPECIFIC_HEAT |-> 470, DENSITY |-> 7850 ],
    MLI      |-> [ MAX_TEMP_RISE |-> 80, SPECIFIC_HEAT |-> 1000, DENSITY |-> 100 ] ]

\* (BEAM_QUALITY * WAVELENGTH) / (Math.PI * (TRANSMITTER_DIAMETER / 2)), in
\* 1e-12 rad
divergenceAngle ==
  MulDiv(MulDiv(LASER_PARAMS.BEAM_QUALITY * LASER_PARAMS.WAVELENGTH * 10^5,
                PiDen, PiNum),
         1000, (LASER_PARAMS.TRANSMITTER_DIAMETER * 1000) \div 2)

\* (TRANSMITTER_DIAMETER / 2) + distance * divergenceAngle, in micro-m
beamRadius(distance) ==
  (LASER_PARAMS.TRANSMITTER_DIAMETER * 1000) \div 2
    + MulDiv(distance, divergenceAngle, 10^6)

\* (pulseEnergy * 0.7) / (beamArea * 10000), in micro-J/cm^2
fluenceAt(pulseEnergy, distance) ==
  MulDiv(MulDiv(pulseEnergy, 7, 10), 10^8, BeamArea(beamRadius(distance)))

\* cm in 1e-12 N.s/J
CouplingAt(fluence) ==
  IF fluence < 10 * FluenceScale THEN 5 * Ppm
  ELSE IF fluence < 50 * FluenceScale
    THEN 5 * Ppm + (fluence - 10 * FluenceScale) \div 2
  ELSE 25 * Ppm

\* delta-V of one pulse in nm/s
calculateLaserDeltaV(pulseEnergy, mass, distance) ==
  MulDiv(CouplingAt(fluenceAt(pulseEnergy, distance)), pulseEnergy, mass)

\* absorptionEff in ppm
AbsorptionAt(fluence) ==
  IF fluence < 20 * FluenceScale THEN 300000
  ELSE Min(800000, 300000 + (fluence - 20 * FluenceScale) \div 100)

\* Math.floor(maxTempRise / tempRisePerPulse), tempRisePerPulse being
\* areaToMass * (fluence * 10000 * absorptionEff) / specificHeat
calculateMaxPulses(deb, fluence) ==
  MulDiv(MATERIAL_PROPERTIES[deb.material].MAX_TEMP_RISE
           * MATERIAL_PROPERTIES[deb.material].SPECIFIC_HEAT,
         10^5,
         deb.areaToMass * MulDiv(fluence, AbsorptionAt(fluence), Ppm))

\* null and undefined, as a value that can be compared with objects
Null == [null |-> TRUE]

\* the closed pass calculateVisibilityWindows records for a run of samples
\* above the threshold: times in ms since startDate, duration in s
PassOver(startTime, duration, maxElevation) ==
  [ startTime    |-> startTime,
    endTime      |-> startTime + duration * 1000,
    duration     |-> duration,
    maxElevation |-> maxElevation,
    azimuthStart |-> 0 ]

\* what calculateVisibilityWindows can return for one station
WindowChoices ==
  { << >>,
    << PassOver(timeStep, 60, 45) >>,
    << PassOver(5 * timeStep, 60, 30) >>,
    << PassOver(timeStep, 120, 30), PassOver(5 * timeStep, 60, 45) >> }

\* stations.forEach from the k-th station on: the passes pushed, windows[k]
\* being what calculateVisibilityWindows returns for the k-th station
RECURSIVE CollectPasses(_, _, _)
CollectPasses(stationList, windows, k) ==
  IF k > Len(stationList) THEN << >>
  ELSE [ p \in 1..Len(windows[k]) |->
           windows[k][p] @@ [ stationId   |-> stationList[k].id,
                              stationName |-> stationList[k].name ] ]
         \o CollectPasses(stationList, windows, k + 1)

\* sorted, with e put before the elements that do not start earlier than e
InsertBeforeTies(sorted, e) ==
  LET k == Cardinality({ j \in 1..Len(sorted) :
                           sorted[j].startTime < e.startTime })
  IN  SubSeq(sorted, 1, k) \o << e >> \o SubSeq(sorted, k + 1, Len(sorted))

\* sorted, with e put behind the elements that do not start later than e
InsertByStartTime(sorted, e) ==
  LET k == Cardinality({ j \in 1..Len(sorted) :
                           sorted[j].startTime <= e.startTime })
  IN  SubSeq(sorted, 1, k) \o << e >> \o SubSeq(sorted, k + 1, Len(sorted))

\* Array.prototype.sort with the comparator a.startTime - b.startTime: a
\* stable sort
RECURSIVE SortByStartTime(_)
SortByStartTime(seq) ==
  IF seq = << >> THEN << >>
  ELSE InsertByStartTime(SortByStartTime(SubSeq(seq, 1, Len(seq) - 1)),
                         seq[Len(seq)])

\* the sum of the first n elements of seq (slice(0, n).reduce)
RECURSIVE SumOfFirst(_, _)
SumOfFirst(seq, n) ==
  IF n <= 0 \/ seq = << >> THEN 0
  ELSE SatAdd(Head(seq), SumOfFirst(Tail(seq), n - 1))

\* the position of the last entry isReEntryAchieved holds for
LastReEntry(evolution) ==
  LET found == { k \in 1..Len(evolution) :
                   isReEntryAchieved(evolution[k].perigeeAlt) }
  IN  IF found = {} THEN 0
      ELSE CHOOSE k \in found : \A j \in found : k >= j

\* the position of the first entry of evolution isReEntryAchieved holds
\* for, 0 when find returns undefined
FirstReEntry(evolution) ==
  LET found == { k \in 1..Len(evolution) :
                   isReEntryAchieved(evolution[k].perigeeAlt) }
  IN  IF found = {} THEN 0
      ELSE CHOOSE k \in found : \A j \in found : k <= j

\* the callback of setTimeout, statement by statement: each stage takes the
\* locals computed so far and adds its own.  m.debris and m.stations are the
\* selectedDebris and stations of the render that scheduled the callback,
\* m.windows what calculateVisibilityWindows returns for each station

MissionPasses(m) ==
  m @@ [ allPasses |-> SortByStartTime(CollectPasses(m.stations, m.windows, 1)) ]

\* deltaVPerPulse in nm/s, fluence in micro-J/cm^2
MissionLaser(m) ==
  m @@ [ distance       |-> m.debris.perigee + 6371000,
         deltaVPerPulse |-> calculateLaserDeltaV(LASER_PARAMS.PULSE_ENERGY,
                                                 m.debris.mass,
                                                 m.debris.perigee + 6371000),
         fluence        |-> fluenceAt(LASER_PARAMS.PULSE_ENERGY,
                                      m.debris.perigee + 6371000) ]

MissionMaxPulses(m) ==
  m @@ [ maxPulsesPerPass |-> calculateMaxPulses(m.debris, m.fluence) ]

\* Math.min(maxPulsesPerPass, Math.floor(pass.duration / 0.1))
PulsesThisPass(maxPulsesPerPass, pass) ==
  Min(maxPulsesPerPass, pass.duration * 10)

\* the element pushed to passDetails; deltaV in mm/s
PassDetail(idx, pass, pulsesThisPass, deltaVPerPulse) ==
  [ passNumber |-> idx,
    time       |-> pass.startTime,
    duration   |-> pass.duration,
    pulses     |-> pulsesThisPass,
    deltaV     |-> MulDiv(deltaVPerPulse, pulsesThisPass, 10^6),
    station    |-> pass.stationName,
    elevation  |-> pass.maxElevation ]

MissionPassDetails(m) ==
  m @@ [ passDetails |->
           [ idx \in 1..Len(m.allPasses) |->
               PassDetail(idx, m.allPasses[idx],
                          PulsesThisPass(m.maxPulsesPerPass, m.allPasses[idx]),
                          m.deltaVPerPulse) ] ]

MissionDeltaVs(m) ==
  m @@ [ deltaVsPerPass |->
           [ idx \in 1..Len(m.passDetails) |-> m.passDetails[idx].deltaV ] ]

MissionEvolution(m) ==
  m @@ [ orbitalEvolution |-> trackPerigeeEvolution(m.debris.perigee,
                                                    m.debris.apogee,
                                                    m.deltaVsPerPass) ]

MissionReEntry(m) ==
  m @@ [ reEntryPass |-> FirstReEntry(m.orbitalEvolution) ]

MissionPassesNeeded(m) ==
  m @@ [ passesNeeded |->
           IF m.reEntryPass # 0
           THEN m.orbitalEvolution[m.reEntryPass].passNumber
           ELSE Len(m.orbitalEvolution) ]

MissionFinalPerigee(m) ==
  m @@ [ totalDeltaV  |-> SumOfFirst(m.deltaVsPerPass, m.passesNeeded),
         finalPerigee |->
           IF m.reEntryPass # 0
           THEN m.orbitalEvolution[m.reEntryPass].perigeeAlt
           ELSE m.orbitalEvolution[Len(m.orbitalEvolution)].perigeeAlt ]

MissionDecay(m) ==
  m @@ [ decay |-> estimateAtmosphericDecay(m.finalPerigee,
                                            m.debris.areaToMass) ]

\* allPasses[0] and allPasses[Math.min(passesNeeded - 1, allPasses.length - 1)]
\* (positions from 0): reading startTime of an element that does not exist
\* throws a TypeError
MissionThrows(m) ==
  m.allPasses = << >> \/ Min(m.passesNeeded - 1, Len(m.allPasses) - 1) < 0

\* durationDays in s, totalEnergyGJ in J
MissionTotals(m) ==
  m @@ [ durationDays |->
           (m.allPasses[Min(m.passesNeeded, Len(m.allPasses))].startTime
              - m.allPasses[1].startTime) \div 1000,
         totalPulses |->
           SumOfFirst([ idx \in 1..Len(m.passDetails) |-> m.passDetails[idx].pulses ],
                      m.passesNeeded) ]

MissionEnergy(m) ==
  m @@ [ totalEnergyGJ |-> SatMul(m.totalPulses, LASER_PARAMS.PULSE_ENERGY) ]

\* the object handed to setMissionResults
MissionReport(m) ==
  [ debris           |-> m.debris,
    passesNeeded     |-> m.passesNeeded,
    totalPasses      |-> Len(m.allPasses),
    totalDeltaV      |-> m.totalDeltaV,
    durationDays     |-> m.durationDays,
    totalEnergyGJ    |-> m.totalEnergyGJ,
    totalPulses      |-> m.totalPulses,
    reEntryAchieved  |-> m.reEntryPass # 0,
    finalPerigee     |-> m.finalPerigee,
    atmosphericDecay |-> m.decay,
    passDetails      |-> SubSeq(m.passDetails, 1,
                                Min(Len(m.passDetails), Min(20, m.passesNeeded))),
    orbitalEvolution |-> SubSeq(m.orbitalEvolution, 1,
                                Min(Len(m.orbitalEvolution), Min(50, m.passesNeeded))),
    deltaVPerPulse   |-> m.deltaVPerPulse,
    fluence          |-> m.fluence,
    costAnalysis     |-> calculateMissionCost(m.totalEnergyGJ, m.durationDays) ]

\* the locals when the callback stops: at the TypeError, or after
\* setMissionResults
MissionOutcome(m) ==
  IF MissionThrows(m) THEN m @@ [ outcome |-> "threw" ]
  ELSE m @@ [ outcome |-> "reported",
              results |-> MissionReport(MissionEnergy(MissionTotals(m))) ]

MissionCallback(callback, windows) ==
  MissionOutcome(MissionDecay(MissionFinalPerigee(MissionPassesNeeded(
    MissionReEntry(MissionEvolution(MissionDeltaVs(MissionPassDetails(
      MissionMaxPulses(MissionLaser(MissionPasses(
        [ debris |-> callback.debris, stations |-> callback.stations,
          windows |-> windows ])))))))))))

\* getAllPasses: flatMap over the stations, then the same sort
RECURSIVE FlatMapPasses(_, _)
FlatMapPasses(windows, k) ==
  IF k > Len(windows) THEN << >>
  ELSE windows[k] \o FlatMapPasses(windows, k + 1)

getAllPasses(stationList, windows) ==
  SortByStartTime(FlatMapPasses(windows, 1))

\* the station LocationMarker hands to onStationAdd for a click at latlng
\* (in millidegrees); the name is the number in `Station ${Math.floor(lat)}`
StationAt(latlng, id) ==
  [ id |-> id, lat |-> latlng.lat, lng |-> latlng.lng,
    name |-> latlng.lat \div 1000 ]

ClickChoices ==
  { [lat |-> 28600, lng |-> 77200], [lat |-> 0 - 33900, lng |-> 18400],
    [lat |-> 52500, lng |-> 13400] }

(* runMissionSimulation and its callback, for a station list placed
   earlier *)

\* number of stations placed
MaxStations == 2
\* number of calls of runMissionSimulation
MaxRuns == 2

\* the lists n clicks place, the k-th at time k
StationListsOf(n) ==
  { [ k \in 1..n |-> StationAt(c[k], k) ] : c \in [1..n -> ClickChoices] }

InitMission ==
  /\ stations \in UNION { StationListsOf(n) : n \in 0..MaxStations }
  /\ selectedDebris \in {Null} \cup { DEBRIS_CATALOG[d] : d \in 1..Len(DEBRIS_CATALOG) }
  /\ missionResults = Null
  /\ calculating = FALSE
  /\ showResults = FALSE
  /\ timers = << >>
  /\ alerts = << >>
  /\ now = Len(stations)
  /\ mission = [outcome |-> "none"]
  /\ track = None
  /\ pc = "planner"
  /\ tracker = None /\ lastCall = [op |-> "none"] /\ nCalls = 0
  /\ debris = None /\ validation = None
  /\ CampaignIdle /\ ScanIdle

\* runMissionSimulation up to setTimeout: the callback closes over the
\* selectedDebris and stations of this render
RunMissionSimulation ==
  /\ pc = "planner"
  /\ nCalls < MaxRuns
  /\ nCalls' = nCalls + 1
  /\ IF selectedDebris = Null \/ Len(stations) = 0
     THEN /\ alerts' = Append(alerts, "Please select debris and place at least one ground station")
          /\ UNCHANGED <<calculating, showResults, timers>>
     ELSE /\ calculating' = TRUE
          /\ showResults' = FALSE
          /\ timers' = Append(timers, [ debris |-> selectedDebris,
                                        stations |-> stations ])
          /\ UNCHANGED alerts
  /\ UNCHANGED <<tracker, lastCall, debris, campaignVars, validation, scanVars,
                 pc, stations, selectedDebris, missionResults, now, mission,
                 track>>

\* the callback runs, 1.5 s after it was scheduled
TimerFires ==
  /\ pc = "planner"
  /\ timers # << >>
  /\ \E windows \in [1..Len(Head(timers).stations) -> WindowChoices] :
       mission' = MissionCallback(Head(timers), windows)
  /\ timers' = Tail(timers)
  /\ IF mission'.outcome = "threw"
     THEN UNCHANGED <<missionResults, calculating, showResults>>
     ELSE /\ missionResults' = mission'.results
          /\ calculating' = FALSE
          /\ showResults' = TRUE
  /\ UNCHANGED <<apiVars, debris, campaignVars, validation, scanVars, pc,
                 stations, selectedDebris, alerts, now, track>>

\* a call of getAllPasses for the station list, instead of the planner
GetAllPasses ==
  /\ pc = "planner"
  /\ nCalls = 0
  /\ pc' = "returned"
  /\ \E windows \in [1..Len(stations) -> WindowChoices] :
       mission' = [ outcome   |-> "merged",
                    stations  |-> stations,
                    windows   |-> windows,
                    allPasses |-> getAllPasses(stations, windows) ]
  /\ UNCHANGED <<apiVars, debris, campaignVars, validation, scanVars,
                 stations, selectedDebris, missionResults, calculating,
                 showResults, timers, alerts, now, track>>

NextMission == RunMissionSimulation \/ TimerFires \/ GetAllPasses

SpecMission == InitMission /\ [][NextMission]_vars

\* C12: a run whose scan yields no passes, or that is given no stations,
\* ends with a mission report that has zero passes and reEntryAchieved =
\* false: the callback that found no passes has handed over such a report,
\* and a call made with no stations has scheduled that callback
EmptyScanReported ==
  /\ mission.outcome \in {"threw", "reported"} /\ mission.allPasses = << >>
       => /\ mission.outcome = "reported"
          /\ mission.results.totalPasses = 0
          /\ ~mission.results.reEntryAchieved
  /\ (stations = << >> /\ selectedDebris # Null) => alerts = << >>

\* the callback found no passes and stopped at the TypeError, leaving the
\* planner calculating and without results
EmptyScanThrew ==
  /\ mission.outcome = "threw"
  /\ mission.allPasses = << >>
  /\ calculating /\ ~showResults /\ missionResults = Null
  /\ timers = << >>

\* the passes in the order the scans of the stations yield them
PassesPushed ==
  IF mission.outcome = "merged" THEN FlatMapPasses(mission.windows, 1)
  ELSE CollectPasses(mission.stations, mission.windows, 1)

\* the number of passes pushed that start before the q-th one, or with it
\* and not after it in the order pushed
MergedPosition(pushed, q) ==
  Cardinality({ j \in 1..Len(pushed) :
                  \/ pushed[j].startTime < pushed[q].startTime
                  \/ pushed[j].startTime = pushed[q].startTime /\ j <= q })

\* C13: allPasses holds every pass of every station exactly once, by
\* non-decreasing startTime, passes with equal startTime in the order of
\* their stations: the q-th pass pushed stands behind exactly the passes
\* that start earlier and those pushed before it that start with it
MergedInStationOrder ==
  mission.outcome \in {"merged", "threw", "reported"} =>
    /\ Len(mission.allPasses) = Len(PassesPushed)
    /\ \A q \in 1..Len(PassesPushed) :
         mission.allPasses[MergedPosition(PassesPushed, q)] = PassesPushed[q]
    /\ \A k \in 1..(Len(mission.allPasses) - 1) :
         mission.allPasses[k].startTime <= mission.allPasses[k + 1].startTime

\* the callback merged the passes of two stations, two of them starting
\* together, into an order that is not the order they were pushed in
MergedWitness ==
  /\ mission.outcome = "reported"
  /\ Len(mission.stations) = 2
  /\ mission.allPasses # PassesPushed
  /\ \E k \in 1..(Len(mission.allPasses) - 1) :
       /\ mission.allPasses[k].startTime = mission.allPasses[k + 1].startTime
       /\ mission.allPasses[k].stationId = 1
       /\ mission.allPasses[k + 1].stationId = 2

---------------------------------------------------------------------------
(* trackPerigeeEvolution called on an orbit and a list of delta-Vs *)

\* number of delta-Vs in the list
MaxBurns == 3

\* perigee and apogee altitude in m: the orbits of DEBRIS_CATALOG and a
\* circular one
OrbitChoices ==
  { <<DEBRIS_CATALOG[d].perigee, DEBRIS_CATALOG[d].apogee>> :
      d \in 1..Len(DEBRIS_CATALOG) } \cup { <<400000, 400000>> }

\* mm/s: 1 mm/s, what a pass of 60 s gives the first and the last debris of
\* the catalog, and 16 km/s
DeltaVChoices == {1, 20000, 600000, 16000000}

InitTrack ==
  /\ \E orbit \in OrbitChoices, n \in 0..MaxBurns :
       \E deltaVs \in [1..n -> DeltaVChoices] :
         track = TrackStart(orbit[1], orbit[2])
                   @@ [ initialPerigee |-> orbit[1],
                        initialApogee  |-> orbit[2],
                        deltaVs        |-> deltaVs,
                        index          |-> 0 ]
  /\ pc = "track"
  /\ stations = None /\ selectedDebris = None /\ missionResults = None
  /\ calculating = None /\ showResults = None /\ timers = None
  /\ alerts = None /\ now = None /\ mission = None
  /\ tracker = None /\ lastCall = [op |-> "none"] /\ nCalls = 0
  /\ debris = None /\ validation = None
  /\ CampaignIdle /\ ScanIdle

\* one iteration of deltaVs.forEach
TrackStep ==
  /\ pc = "track"
  /\ track.index < Len(track.deltaVs)
  /\ track' = TrackBurn(track, track.deltaVs[track.index + 1])
                @@ [ initialPerigee |-> track.initialPerigee,
                     initialApogee  |-> track.initialApogee,
                     deltaVs        |-> track.deltaVs,
                     index          |-> track.index + 1 ]
  /\ UNCHANGED <<apiVars, debris, campaignVars, validation, scanVars, pc,
                 stations, selectedDebris, missionResults, calculating,
                 showResults, timers, alerts, now, mission>>

\* return evolution
TrackReturn ==
  /\ pc = "track"
  /\ track.index = Len(track.deltaVs)
  /\ pc' = "returned"
  /\ UNCHANGED <<apiVars, debris, campaignVars, validation, scanVars,
                 plannerVars>>

NextTrack == TrackStep \/ TrackReturn

SpecTrack == InitTrack /\ [][NextTrack]_vars

\* C15: for strictly positive delta-Vs and an initial orbit with perigee <=
\* apogee, the perigeeAlt of an entry is never above that of the entry
\* before it, and the apogeeAlt of every entry is the initial apogee
PerigeeNeverRises ==
  /\ \A k \in 2..Len(track.evolution) :
       Le(track.evolution[k].perigeeAlt, track.evolution[k - 1].perigeeAlt)
  /\ \A k \in 1..Len(track.evolution) :
       track.evolution[k].apogeeAlt = track.initialApogee

\* a burn larger than twice the speed at apogee has raised the perigee
PerigeeRose ==
  /\ pc = "returned"
  /\ \E k \in 2..Len(track.evolution) :
       /\ track.evolution[k].deltaV > 0
       /\ 2 * ApogeeSpeed(track.evolution[k - 1].semiMajorAxis,
                          track.initialApogee + EARTH_RADIUS_KM)
            < track.evolution[k].deltaV
       /\ track.evolution[k].perigeeAlt > track.evolution[k - 1].perigeeAlt

\* C16: every entry of the evolution of an orbit with perigee <= apogee has
\* perigeeAlt <= apogeeAlt and an eccentricity in [0, 1) that is the one of
\* its perigee and apogee
ElementsConsistent ==
  \A k \in 1..Len(track.evolution) :
    /\ Le(track.evolution[k].perigeeAlt, track.evolution[k].apogeeAlt)
    /\ Le(0, track.evolution[k].eccentricity)
    /\ Lt(track.evolution[k].eccentricity, Ppm)
    /\ track.evolution[k].eccentricity
         = EccentricityBetween(track.evolution[k].perigeeAlt + EARTH_RADIUS_KM,
                               track.evolution[k].apogeeAlt + EARTH_RADIUS_KM)

\* an entry whose perigeeAlt is above its apogeeAlt, with a negative
\* eccentricity
PerigeeAboveApogee ==
  /\ pc = "returned"
  /\ \E k \in 2..Len(track.evolution) :
       /\ track.evolution[k].perigeeAlt > track.evolution[k].apogeeAlt
       /\ track.evolution[k].eccentricity < 0
       /\ track.evolution[k - 1].perigeeAlt <= track.evolution[k - 1].apogeeAlt

---------------------------------------------------------------------------
(* Two planRemovalCampaign runs on the same debris and laserParams objects,
   their loop iterations interleaved.  heap holds the objects, a reference
   being a position in it; runs[r] holds the locals of run r, those that are
   objects as references *)

\* the locals of planRemovalCampaign before the loop
CampaignStart(deb, laser, times, mat) ==
  [ i |-> 0, tracker |-> NewTracker(mat, deb.mass, deb.area, 270),
    currentDebris |-> [deb EXCEPT !.cumulativeDeltaV = 0],
    passResults |-> << >>, totalPulses |-> 0, totalEnergy |-> 0,
    missionComplete |-> FALSE, laserParams |-> laser, passTimes |-> times ]

\* the condition of the for loop, for the locals s
RunContinues(s) == s.i < Len(s.passTimes) /\ ~s.missionComplete

RECURSIVE CampaignLoop(_)
CampaignLoop(s) ==
  IF RunContinues(s) THEN CampaignLoop(CampaignStep(s)) ELSE s

\* planRemovalCampaign run from its call to its return
planRemovalCampaign(deb, laser, times, mat) ==
  CampaignReport(CampaignLoop(CampaignStart(deb, laser, times, mat)), deb)

\* the tracker object made first, kept for every later run
SharedTracker(objects) == Min(Len(objects) + 1, 5)

\* new ThermalBudgetTracker(...): the reference of a new object
OwnTracker(objects) == Len(objects) + 1

\* objects with value written to the object at ref, a new one if ref is new
Store(objects, ref, value) ==
  IF ref = Len(objects) + 1 THEN Append(objects, value)
  ELSE [objects EXCEPT ![ref] = value]

RunChoices ==
  [ passTimes : { <<0>>, <<0, 5400>>, <<0, 43200>> },
    material  : {"ALUMINUM", "STEEL"} ]

\* the locals of a run that has been called with args, before its first
\* statement; given keeps the values of the arguments at the call
RunCalled(args, r) ==
  [ pc |-> "call", material |-> args.material,
    debris |-> 1, laserParams |-> 2, passTimes |-> 2 + r,
    thermalTracker |-> 0, currentDebris |-> 0,
    i |-> 0, passResults |-> << >>, totalPulses |-> 0, totalEnergy |-> 0,
    missionComplete |-> FALSE, report |-> Null,
    given |-> args, overlapped |-> FALSE ]

InitRuns ==
  /\ \E deb \in {ExampleDebris, LowDebris}, args \in [1..2 -> RunChoices] :
       /\ heap = << deb, DLRLaser, args[1].passTimes, args[2].passTimes >>
       /\ runs = [ r \in 1..2 |->
                     RunCalled([ debris |-> deb, laserParams |-> DLRLaser,
                                 passTimes |-> args[r].passTimes,
                                 material |-> args[r].material ], r) ]
  /\ pc = "runs"
  /\ laserParams = None /\ passTimes = None /\ material = None /\ i = 0
  /\ currentDebris = None /\ passResults = << >> /\ totalPulses = 0
  /\ totalEnergy = 0 /\ missionComplete = FALSE /\ report = None
  /\ tracker = None /\ lastCall = [op |-> "none"] /\ nCalls = 0
  /\ debris = None /\ validation = None
  /\ ScanIdle /\ PlannerIdle

\* the statements of run r before the loop: the tracker is built and the
\* debris copied
RunStart(r) ==
  /\ pc = "runs"
  /\ runs[r].pc = "call"
  /\ LET made == Store(heap, OwnTracker(heap),
                       NewTracker(runs[r].material, heap[runs[r].debris].mass,
                                  heap[runs[r].debris].area, 270))
     IN  /\ heap' = Append(made, [heap[runs[r].debris] EXCEPT !.cumulativeDeltaV = 0])
         /\ runs' = [runs EXCEPT ![r] =
                       [@ EXCEPT !.pc = "loop",
                                 !.thermalTracker = OwnTracker(heap),
                                 !.currentDebris = Len(made) + 1]]
  /\ UNCHANGED <<apiVars, debris, laserParams, passTimes, material, i,
                 currentDebris, passResults, totalPulses, totalEnergy,
                 missionComplete, report, validation, scanVars, plannerVars, pc>>

\* the locals of run r with the objects its references point to
RunLocals(r) ==
  [ i |-> runs[r].i, tracker |-> heap[runs[r].thermalTracker],
    currentDebris |-> heap[runs[r].currentDebris],
    passResults |-> runs[r].passResults, totalPulses |-> runs[r].totalPulses,
    totalEnergy |-> runs[r].totalEnergy,
    missionComplete |-> runs[r].missionComplete,
    laserParams |-> heap[runs[r].laserParams],
    passTimes |-> heap[runs[r].passTimes] ]

\* one iteration of the loop of run r: the tracker is changed in place, and
\* an accepted pass makes currentDebris refer to the new updatedDebris
RunStep(r) ==
  /\ pc = "runs"
  /\ runs[r].pc = "loop"
  /\ RunContinues(RunLocals(r))
  /\ \E s \in { CampaignStep(RunLocals(r)) } :
       LET accepted == ~s.passResults[Len(s.passResults)].skipped
           tracked  == Store(heap, runs[r].thermalTracker, s.tracker)
       IN  /\ heap' = IF accepted THEN Append(tracked, s.currentDebris)
                      ELSE tracked
           /\ runs' = [runs EXCEPT ![r] =
                         [@ EXCEPT !.i = s.i,
                                   !.passResults = s.passResults,
                                   !.totalPulses = s.totalPulses,
                                   !.totalEnergy = s.totalEnergy,
                                   !.missionComplete = s.missionComplete,
                                   !.currentDebris =
                                      IF accepted THEN Len(heap) + 1 ELSE @,
                                   !.overlapped =
                                      @ \/ (runs[3 - r].pc = "loop"
                                              /\ runs[3 - r].i > 0)]]
  /\ UNCHANGED <<apiVars, debris, laserParams, passTimes, material, i,
                 currentDebris, passResults, totalPulses, totalEnergy,
                 missionComplete, report, validation, scanVars, plannerVars, pc>>

\* the statements of run r after the loop
RunFinish(r) ==
  /\ pc = "runs"
  /\ runs[r].pc = "loop"
  /\ ~RunContinues(RunLocals(r))
  /\ runs' = [runs EXCEPT ![r] =
                [@ EXCEPT !.pc = "done",
                          !.report = CampaignReport(RunLocals(r),
                                                    heap[runs[r].debris])]]
  /\ UNCHANGED <<apiVars, debris, laserParams, passTimes, material, i,
                 currentDebris, passResults, totalPulses, totalEnergy,
                 missionComplete, report, heap, validation, scanVars,
                 plannerVars, pc>>

NextRuns == \E r \in 1..2 : RunStart(r) \/ RunStep(r) \/ RunFinish(r)

SpecRuns == InitRuns /\ [][NextRuns]_vars

\* C17: two runs share no object they change: each has a tracker and a
\* debris copy of its own, the argument objects keep the values they were
\* passed with, and a run that has returned has returned the report it
\* returns when it runs alone, however the iterations were interleaved
RunsAreIndependent ==
  /\ \A r \in 1..2 :
       /\ heap[runs[r].debris] = runs[r].given.debris
       /\ heap[runs[r].laserParams] = runs[r].given.laserParams
       /\ heap[runs[r].passTimes] = runs[r].given.passTimes
       /\ runs[r].pc # "call" =>
            /\ runs[r].thermalTracker \notin
                 {runs[r].debris, runs[r].laserParams, runs[r].passTimes}
            /\ runs[r].currentDebris # runs[r].debris
       /\ runs[r].pc = "done" =>
            runs[r].report = planRemovalCampaign(runs[r].given.debris,
                                                 runs[r].given.laserParams,
                                                 runs[r].given.passTimes,
                                                 runs[r].given.material)
  /\ (runs[1].pc # "call" /\ runs[2].pc # "call") =>
       /\ runs[1].thermalTracker # runs[2].thermalTracker
       /\ runs[1].currentDebris # runs[2].currentDebris

\* both runs have returned, each after two accepted passes, the second pass
\* of each made after a pass of the other
RunsInterleaved ==
  /\ \A r \in 1..2 :
       /\ runs[r].pc = "done"
       /\ runs[r].overlapped
       /\ runs[r].report.successfulPasses = 2
  /\ runs[1].report # runs[2].report

---------------------------------------------------------------------------
(* GroundStationMap: clicks on the map *)

\* number of clicks
MaxClicks == 7

InitStations ==
  /\ stations = << >>
  /\ alerts = << >>
  /\ now = 0
  /\ pc = "map"
  /\ selectedDebris = Null /\ missionResults = Null
  /\ calculating = FALSE /\ showResults = FALSE /\ timers = << >>
  /\ mission = [outcome |-> "none"] /\ track = None
  /\ tracker = None /\ lastCall = [op |-> "none"] /\ nCalls = 0
  /\ debris = None /\ validation = None
  /\ CampaignIdle /\ ScanIdle

\* stations.length <= 5
MayAddStationAtFive(list) == Len(list) <= 5

\* stations.length < 5
MayAddStation(list) == Len(list) < 5

\* a click on the map, one ms or more after the last: LocationMarker builds
\* the station and handleAddStation adds it or alerts
handleAddStation ==
  /\ pc = "map"
  /\ now < MaxClicks
  /\ now' = now + 1
  /\ \E latlng \in ClickChoices :
       IF MayAddStation(stations)
       THEN /\ stations' = Append(stations, StationAt(latlng, now'))
            /\ UNCHANGED alerts
       ELSE /\ alerts' = Append(alerts, "Max 5 stations allowed.")
            /\ UNCHANGED stations
  /\ UNCHANGED <<apiVars, debris, campaignVars, validation, scanVars, pc,
                 selectedDebris, missionResults, calculating, showResults,
                 timers, mission, track>>

NextStations == handleAddStation

SpecStations == InitStations /\ [][NextStations]_vars

\* C18: a click leaves at most 5 stations in the list, leaves the list as it
\* is when it holds 5, and leaves every station placed before it where and
\* as it was
StationsCappedAndKept ==
  [][ /\ Len(stations') <= 5
      /\ Len(stations) = 5 => stations' = stations
      /\ Len(stations') >= Len(stations)
      /\ SubSeq(stations', 1, Len(stations)) = stations ]_vars

\* five stations are placed and a later click was refused
SixthClickRefused ==
  /\ Len(stations) = 5
  /\ alerts # << >>
  /\ now > 5

---------------------------------------------------------------------------
(* calculateMissionCost, as planRemovalCampaign calls it *)

\* C19: for a non-negative energy and duration the cost returned has
\* totalCost = electricityCost + operatingCost, and its ratios costPerKm and
\* comparisonToSpacecraft are finite numbers, also when totalCost is zero
CostRatiosFinite ==
  (pc = "done" /\ report.missionDuration # NaN) =>
    /\ report.estimatedCost.totalCost
         = report.estimatedCost.electricityCost + report.estimatedCost.operatingCost
    /\ report.estimatedCost.costPerKm \notin {NaN, Infinity}
    /\ report.estimatedCost.comparisonToSpacecraft \notin {NaN, Infinity}

\* a campaign of one pass at time 0 that was skipped: no energy, no
\* duration, a total cost of zero, and the ratios 0/0 and 100e6/0
ZeroCostDivided ==
  /\ pc = "done"
  /\ report.totalEnergy = 0
  /\ report.missionDuration = 0
  /\ report.estimatedCost.totalCost = 0
  /\ report.estimatedCost.costPerKm = NaN
  /\ report.estimatedCost.comparisonToSpacecraft = Infinity

---------------------------------------------------------------------------
(* Trigonometry for the orbital elements: angles in microradians, sines and
   cosines in ppm.  NaN stands for NaN, Undefined for a missing value *)

PI == 3141593
TwoPi == 2 * PI
HalfPi == PI \div 2

\* a value arithmetic turns into NaN
NotANumber(x) == x = NaN \/ x = Undefined

Sign(x) == IF x < 0 THEN 0 - 1 ELSE 1

\* x * y / z to the unit below, NaN for 0/0 and for a NaN operand
Ratio(x, y, z) ==
  IF NotANumber(x) \/ NotANumber(y) \/ NotANumber(z) THEN NaN
  ELSE IF z = 0 THEN (IF x = 0 \/ y = 0 THEN NaN ELSE Infinity)
  ELSE Sign(x) * Sign(y) * Sign(z)
         * Min(MulDiv(Abs(x), Abs(y), Abs(z)), MaxInt - 2)

\* x + y and x - y
Plus(x, y) == IF NotANumber(x) \/ NotANumber(y) THEN NaN ELSE x + y
Minus(x, y) == IF NotANumber(x) \/ NotANumber(y) THEN NaN ELSE x - y

\* the sine series of t in [0, pi/2], t2 being t * t
SineSeries(t, t2) ==
  MulDiv(t,
         Ppm - MulDiv(t2,
           Ppm - MulDiv(t2,
             Ppm - MulDiv(t2,
               Ppm - MulDiv(t2, Ppm - t2 \div 110, 72 * Ppm),
               42 * Ppm),
             20 * Ppm),
           6 * Ppm),
         Ppm)

\* the sine of y in [0, pi]
SineFolded(t) == SineSeries(t, MulDiv(t, t, Ppm))
SineOfHalfTurn(y) == SineFolded(IF y > HalfPi THEN PI - y ELSE y)

\* the sine of y in [0, 2 pi)
SineOfTurn(y) == IF y > PI THEN 0 - SineOfHalfTurn(y - PI) ELSE SineOfHalfTurn(y)

\* Math.sin(x), Math.cos(x)
Sine(x) == IF NotANumber(x) THEN NaN ELSE SineOfTurn(x % TwoPi)
Cosine(x) == IF NotANumber(x) THEN NaN ELSE SineOfTurn((x + HalfPi) % TwoPi)

\* the angle in lo..hi whose cosine is c, by bisection
RECURSIVE ArcCosBetween(_, _, _)
ArcCosStep(c, lo, hi, mid) ==
  IF Cosine(mid) > c THEN ArcCosBetween(c, mid, hi)
  ELSE ArcCosBetween(c, lo, mid)
ArcCosBetween(c, lo, hi) ==
  IF hi - lo <= 1 THEN lo
  ELSE ArcCosStep(c, lo, hi, (lo + hi) \div 2)

\* Math.acos(c): NaN outside [-1, 1], 0 at 1 and pi at -1
ArcCos(c) ==
  IF NotANumber(c) \/ c > Ppm \/ c < 0 - Ppm THEN NaN
  ELSE IF c = Ppm THEN 0
  ELSE IF c = 0 - Ppm THEN PI
  ELSE ArcCosBetween(c, 0, PI)

\* Math.asin(s)
ArcSin(s) == IF ArcCos(s) = NaN THEN NaN ELSE HalfPi - ArcCos(s)

\* Math.atan2(y, x)
ArcTan2Over(y, x, hyp) ==
  IF y < 0 THEN 0 - ArcCos(Ratio(x, Ppm, hyp)) ELSE ArcCos(Ratio(x, Ppm, hyp))

\* Math.sqrt(x * y) for y > 0, and Math.sqrt of a number in ppm
RootOfProduct(x, y) ==
  IF NotANumber(x) \/ x < 0 THEN NaN ELSE SqrtProd(x, y)
Root(x) == RootOfProduct(x, Ppm)

\* Math.max(-1, Math.min(1, c))
Clamped(c) == IF NotANumber(c) THEN NaN ELSE Max(0 - Ppm, Min(Ppm, c))

---------------------------------------------------------------------------
(* State vectors and orbital elements (orbitalMechanics.js).  Positions in
   m, velocities in mm/s, angular momentum in 1000 m^2/s, squared speeds and
   energies in 0.1 m^2/s^2, eccentricity in ppm, angles in microradians *)

\* Math.sqrt(x*x + y*y + z*z), through the largest component
MagnitudeBy(vec, largest) ==
  IF largest = 0 THEN 0
  ELSE MulDiv(largest,
              ISqrt(MulDiv(Abs(vec[1]), 26000, largest) ^ 2
                      + MulDiv(Abs(vec[2]), 26000, largest) ^ 2
                      + MulDiv(Abs(vec[3]), 26000, largest) ^ 2),
              26000)
Magnitude(vec) ==
  MagnitudeBy(vec, Max(Max(Abs(vec[1]), Abs(vec[2])), Abs(vec[3])))

ArcTan2(y, x) ==
  IF NotANumber(y) \/ NotANumber(x) THEN NaN
  ELSE IF y = 0 /\ x = 0 THEN 0
  ELSE ArcTan2Over(y, x, Magnitude(<<x, y, 0>>))

\* a product of a length and a speed, in 1000 m^2/s
Moment(length, speed) == Ratio(length, speed, 10^6)

\* r, v, the angular momentum vector and r_dot_v
VectorKinematics(position, velocity) ==
  [ position |-> position,
    velocity |-> velocity,
    r        |-> Magnitude(position),
    v        |-> Magnitude(velocity),
    hvec     |-> << Moment(position[2], velocity[3])
                      - Moment(position[3], velocity[2]),
                    Moment(position[3], velocity[1])
                      - Moment(position[1], velocity[3]),
                    Moment(position[1], velocity[2])
                      - Moment(position[2], velocity[1]) >>,
    r_dot_v  |-> Moment(position[1], velocity[1])
                   + Moment(position[2], velocity[2])
                   + Moment(position[3], velocity[3]) ]

\* h, the node vector, v_sq and MU_EARTH / r
VectorMomentum(s) ==
  s @@ [ h       |-> Magnitude(s.hvec),
         nvec    |-> << 0 - s.hvec[2], s.hvec[1], 0 >>,
         v_sq    |-> MulDiv(s.v, s.v, 10^5),
         muOverR |-> MulDiv(MU_EARTH, 10^7, s.r) ]

\* one component of the eccentricity vector:
\* ((v_sq - MU_EARTH/r) * x - r_dot_v * vx) / MU_EARTH
EccentricityAlong(s, k) ==
  Ratio(Ratio(s.v_sq - s.muOverR, s.position[k], MU_EARTH), 1, 10)
    - Ratio(s.r_dot_v, s.velocity[k], MU_EARTH)

\* n, the eccentricity vector and the specific orbital energy
VectorEccentricity(s) ==
  s @@ [ n      |-> Magnitude(s.nvec),
         evec   |-> << EccentricityAlong(s, 1), EccentricityAlong(s, 2),
                       EccentricityAlong(s, 3) >>,
         energy |-> s.v_sq \div 2 - s.muOverR ]

\* e, a = -MU_EARTH / (2 * energy) and i = Math.acos(hz / h)
VectorShape(s) ==
  s @@ [ e |-> Magnitude(s.evec),
         a |-> Ratio(0 - MU_EARTH, 10^7, 2 * s.energy),
         i |-> ArcCos(Ratio(s.hvec[3], Ppm, s.h)) ]

\* 2 * Math.PI - angle when the test holds
Reflected(angle, test) ==
  IF test /\ angle # NaN THEN TwoPi - angle ELSE angle

\* Omega, omega and nu with their guards
VectorAngles(s) ==
  s @@ [ Omega |-> IF s.n # 0
                   THEN Reflected(ArcCos(Ratio(s.nvec[1], Ppm, s.n)),
                                  s.nvec[2] < 0)
                   ELSE 0,
         omega |-> IF Gt(s.e, 100) /\ s.n # 0
                   THEN Reflected(
                          ArcCos(Clamped(Ratio(
                            Ratio(s.nvec[1], s.evec[1], s.n)
                              + Ratio(s.nvec[2], s.evec[2], s.n),
                            Ppm, s.e))),
                          s.evec[3] < 0)
                   ELSE 0,
         nu    |-> IF Gt(s.e, 100)
                   THEN Reflected(
                          ArcCos(Clamped(Ratio(
                            Ratio(s.evec[1], s.position[1], s.r)
                              + Ratio(s.evec[2], s.position[2], s.r)
                              + Ratio(s.evec[3], s.position[3], s.r),
                            Ppm, s.e))),
                          s.r_dot_v < 0)
                   ELSE 0 ]

\* Math.asin(z_perigee / r_perigee) * (180 / Math.PI), in microdegrees
PerigeeLatitude(sin_w, sin_i, r_perigee) ==
  Ratio(ArcSin(Ratio(Ratio(Ratio(sin_w, sin_i, Ppm), r_perigee, Ppm),
                     Ppm, r_perigee)),
        180 * Ppm, PI)

\* the object returned
VectorElements(s) ==
  [ a          |-> s.a,
    e          |-> s.e,
    i          |-> s.i,
    omega      |-> s.omega,
    Omega      |-> s.Omega,
    nu         |-> s.nu,
    perigeeAlt |-> Minus(Ratio(s.a, Ppm - s.e, Ppm), EARTH_RADIUS_KM),
    perigeeLat |-> PerigeeLatitude(Sine(s.omega), Sine(s.i),
                                   Ratio(s.a, Ppm - s.e, Ppm)),
    apogeeAlt  |-> Minus(Ratio(s.a, Ppm + s.e, Ppm), EARTH_RADIUS_KM) ]

stateVectorsToOrbitalElements(position, velocity) ==
  VectorElements(VectorAngles(VectorShape(VectorEccentricity(
    VectorMomentum(VectorKinematics(position, velocity))))))

\* a field read by destructuring: undefined when the object has none
FieldOf(object, name) ==
  IF name \in DOMAIN object THEN object[name] ELSE Undefined

\* the ten iterations E = M + e * Math.sin(E), starting from E = M; the sine
\* of undefined or NaN is NaN
RECURSIVE KeplerFrom(_, _, _, _)
KeplerFrom(M, e, E, iter) ==
  IF iter = 10 THEN E
  ELSE IF NotANumber(E) THEN KeplerFrom(M, e, NaN, iter + 1)
  ELSE KeplerFrom(M, e, Plus(M, Ratio(e, Sine(E), Ppm)), iter + 1)

\* the destructured elements and the eccentric anomaly
ElementLocals(elements) ==
  [ a     |-> FieldOf(elements, "a"),
    e     |-> FieldOf(elements, "e"),
    i     |-> FieldOf(elements, "i"),
    omega |-> FieldOf(elements, "omega"),
    Omega |-> FieldOf(elements, "Omega"),
    M     |-> FieldOf(elements, "M"),
    E     |-> KeplerFrom(FieldOf(elements, "M"), FieldOf(elements, "e"),
                         FieldOf(elements, "M"), 0) ]

\* the true anomaly, the distance from the focus, p and h
ElementAnomaly(s) ==
  s @@ [ nu |-> Ratio(2,
                      ArcTan2(
                        Ratio(Root(Plus(Ppm, s.e)),
                              Sine(Ratio(s.E, 1, 2)), Ppm),
                        Ratio(Root(Minus(Ppm, s.e)),
                              Cosine(Ratio(s.E, 1, 2)), Ppm)),
                      1),
         r  |-> Ratio(s.a, Minus(Ppm, Ratio(s.e, Cosine(s.E), Ppm)), Ppm),
         h  |-> RootOfProduct(
                  Ratio(s.a, Minus(Ppm, Ratio(s.e, s.e, Ppm)), Ppm),
                  MU_EARTH) ]

\* position and velocity in the orbital plane and the sines and cosines of
\* the rotation
ElementPlane(s) ==
  s @@ [ x_orb  |-> Ratio(s.r, Cosine(s.nu), Ppm),
         y_orb  |-> Ratio(s.r, Sine(s.nu), Ppm),
         vx_orb |-> Ratio(Ratio(0 - MU_EARTH, 10^6, s.h), Sine(s.nu), Ppm),
         vy_orb |-> Ratio(Ratio(MU_EARTH, 10^6, s.h),
                          Plus(s.e, Cosine(s.nu)), Ppm),
         cos_O  |-> Cosine(s.Omega),
         sin_O  |-> Sine(s.Omega),
         cos_i  |-> Cosine(s.i),
         sin_i  |-> Sine(s.i),
         cos_w  |-> Cosine(s.omega),
         sin_w  |-> Sine(s.omega) ]

\* the vector in the ECI frame of (x, y) in the orbital plane
Rotated(s, x, y) ==
  << Plus(Ratio(Minus(Ratio(s.cos_O, s.cos_w, Ppm),
                      Ratio(Ratio(s.sin_O, s.sin_w, Ppm), s.cos_i, Ppm)),
                x, Ppm),
          Ratio(Minus(Ratio(0 - s.cos_O, s.sin_w, Ppm),
                      Ratio(Ratio(s.sin_O, s.cos_w, Ppm), s.cos_i, Ppm)),
                y, Ppm)),
     Plus(Ratio(Plus(Ratio(s.sin_O, s.cos_w, Ppm),
                     Ratio(Ratio(s.cos_O, s.sin_w, Ppm), s.cos_i, Ppm)),
                x, Ppm),
          Ratio(Plus(Ratio(0 - s.sin_O, s.sin_w, Ppm),
                     Ratio(Ratio(s.cos_O, s.cos_w, Ppm), s.cos_i, Ppm)),
                y, Ppm)),
     Plus(Ratio(Ratio(s.sin_w, s.sin_i, Ppm), x, Ppm),
          Ratio(Ratio(s.cos_w, s.sin_i, Ppm), y, Ppm)) >>

\* the object returned
ElementVectors(s) ==
  [ position |-> Rotated(s, s.x_orb, s.y_orb),
    velocity |-> Rotated(s, s.vx_orb, s.vy_orb) ]

orbitalElementsToStateVectors(elements) ==
  ElementVectors(ElementPlane(ElementAnomaly(ElementLocals(elements))))

\* state vectors of bodies in orbit: on the axes and off them, prograde,
\* polar and retrograde, at an apsis and between, and two circular orbits
PositionChoices ==
  { <<7000000, 0, 0>>, <<0, 7000000, 0>>, <<0, 0, 6900000>>,
    <<0 - 6800000, 0, 0>>, <<4000000, 4000000, 4000000>>,
    <<5000000, 0 - 5000000, 0>>, <<0, 3500000, 6000000>> }
VelocityChoices ==
  { <<0, 7546053, 0>>, <<0, 0, 7546053>>, <<7800000, 0, 0>>,
    <<0, 7800000, 0>>, <<0 - 5000000, 1000000, 5000000>>,
    <<1000000, 7500000, 0>>, <<0, 0 - 5400000, 5400000>> }

\* the body does not move along the line through the centre of the Earth
InOrbit(position, velocity) ==
  VectorMomentum(VectorKinematics(position, velocity)).h # 0

\* a state vector to convert and convert back
InitConversion ==
  /\ \E position \in PositionChoices, velocity \in VelocityChoices :
       /\ InOrbit(position, velocity)
       /\ track = [ position |-> position, velocity |-> velocity ]
  /\ pc = "vectors"
  /\ stations = None /\ selectedDebris = None /\ missionResults = None
  /\ calculating = None /\ showResults = None /\ timers = None
  /\ alerts = None /\ now = None /\ mission = None
  /\ tracker = None /\ lastCall = [op |-> "none"] /\ nCalls = 0
  /\ debris = None /\ validation = None
  /\ CampaignIdle /\ ScanIdle

\* elements = stateVectorsToOrbitalElements(position, velocity)
ToElements ==
  /\ pc = "vectors"
  /\ track' = track @@ [ elements |-> stateVectorsToOrbitalElements(
                                        track.position, track.velocity) ]
  /\ pc' = "elements"
  /\ UNCHANGED <<apiVars, debris, campaignVars, validation, scanVars,
                 stations, selectedDebris, missionResults, calculating,
                 showResults, timers, alerts, now, mission>>

\* back = orbitalElementsToStateVectors(elements)
ToStateVectors ==
  /\ pc = "elements"
  /\ track' = track @@ [ back |-> orbitalElementsToStateVectors(
                                    track.elements) ]
  /\ pc' = "back"
  /\ UNCHANGED <<apiVars, debris, campaignVars, validation, scanVars,
                 stations, selectedDebris, missionResults, calculating,
                 showResults, timers, alerts, now, mission>>

NextConversion == ToElements \/ ToStateVectors

SpecConversion == InitConversion /\ [][NextConversion]_vars

\* every component of the vector found is a number within a hundredth of
\* the length of the original vector, the resolution of this arithmetic
Reproduces(found, original) ==
  \A k \in 1..3 :
    /\ ~NotANumber(found[k])
    /\ Abs(found[k] - original[k]) * 100 <= Magnitude(original)

\* C20: for a non-degenerate orbit (e > 0.0001) the state vector converted to
\* orbital elements by stateVectorsToOrbitalElements and back by
\* orbitalElementsToStateVectors is the original position and velocity,
\* within the tolerance
RoundTripReproduces ==
  (pc = "back" /\ Gt(track.elements.e, 100)) =>
    /\ Reproduces(track.back.position, track.position)
    /\ Reproduces(track.back.velocity, track.velocity)

\* the elements of a non-degenerate orbit came back without a mean anomaly
\* M, and the state vector made of them is NaN in every component
RoundTripLostAnomaly ==
  /\ pc = "back"
  /\ Gt(track.elements.e, 100)
  /\ "M" \notin DOMAIN track.elements
  /\ \A k \in 1..3 : track.back.position[k] = NaN /\ track.back.velocity[k] = NaN

---------------------------------------------------------------------------
(* applyHeating: what decides between acceptance and refusal *)

\* newTemp of the call of applyHeating just made on the tracker t
AttemptedTemp(t, call) ==
  SatAdd(t.currentTemp, calculateTempRise(t, call.numPulses, call.fluence))

\* the call accepted iff newTemp - ambient <= maxTempRise and newTemp <
\* meltingPoint; accepted, it wrote newTemp and returned the margin left;
\* refused, it wrote nothing and named the melting point when newTemp
\* reached it, the limit otherwise
HeatingDecided(t, newTemp, after, result) ==
  /\ result.success <=> ( newTemp - t.ambientTemp <= t.maxTempRise
                            /\ newTemp < t.meltingPoint )
  /\ result.success =>
       /\ after.currentTemp = newTemp
       /\ result.safetyMargin = t.maxTempRise - (newTemp - t.ambientTemp)
  /\ ~result.success =>
       /\ after = t
       /\ result.reason = IF newTemp >= t.meltingPoint
                          THEN "MELTING_RISK" ELSE "TEMP_LIMIT_EXCEEDED"

\* C21: applyHeating accepts, writing currentTemp + deltaT and returning
\* safetyMargin = maxTempRise - (newTemp - ambient), if and only if
\* newTemp - ambient <= maxTempRise and newTemp < meltingPoint; it refuses
\* with MELTING_RISK when newTemp >= meltingPoint and with
\* TEMP_LIMIT_EXCEEDED in every other refusal
HeatingAcceptedIff ==
  [][ (lastCall'.op = "applyHeating" /\ nCalls' = nCalls + 1) =>
        HeatingDecided(tracker, AttemptedTemp(tracker, lastCall'),
                       tracker', lastCall'.result) ]_vars

\* a tracker that has accepted a heating and then refused one that stayed
\* within maxTempRise but reached the melting point
RefusedAtMeltingPoint ==
  /\ lastCall.op = "applyHeating"
  /\ ~lastCall.result.success
  /\ lastCall.result.reason = "MELTING_RISK"
  /\ lastCall.result.attemptedTemp - tracker.ambientTemp <= tracker.maxTempRise
  /\ tracker.heatHistory # << >>

---------------------------------------------------------------------------
(* calculateAdaptiveRepRate called on a tracker between heatings and
   coolings *)

\* debris.visibilityDuration || 300, in s
DurationChoices == {60, 300}

\* calculateAdaptiveRepRate(debris, fluence, thermalTracker, passDuration):
\* it reads the tracker and writes nothing
AdaptiveRepRate ==
  /\ pc = "tracker" /\ nCalls < MaxCalls
  /\ \E fluence \in FluenceChoices, passDuration \in DurationChoices :
       lastCall' = [ op |-> "calculateAdaptiveRepRate", fluence |-> fluence,
                     passDuration |-> passDuration,
                     result |-> calculateAdaptiveRepRate(
                                  Null, fluence, tracker, passDuration) ]
  /\ nCalls' = nCalls + 1
  /\ UNCHANGED <<tracker, debris, campaignVars, validation, scanVars,
                 plannerVars, pc>>

NextRate == ApplyHeating \/ ApplyCooling \/ AdaptiveRepRate

SpecRate == Init /\ [][NextRate]_vars

\* the largest n with n * tempRisePerPulse <= the margin left to t
ThermalBound(t, fluence) ==
  PulsesWithin(t.maxTempRise - (t.currentTemp - t.ambientTemp), fluence,
               t.area, t.mass, t.specificHeat)

\* the budget is the smaller bound and the factor names it
BudgetBinds(result, thermal, laser) ==
  /\ result.pulsesPerPass = Min(thermal, laser)
  /\ result.limitingFactor = IF thermal < laser THEN "THERMAL"
                                               ELSE "LASER_SYSTEM"

\* C22: the pulse budget of calculateAdaptiveRepRate is the largest n with
\* n * tempRisePerPulse <= the available thermal margin and
\* n <= MAX_REPETITION_RATE * passDuration, and limitingFactor is THERMAL
\* exactly when the thermal bound is the smaller of the two, LASER_SYSTEM
\* otherwise
LimitingFactorNamesBound ==
  lastCall.op = "calculateAdaptiveRepRate" =>
    BudgetBinds(lastCall.result, ThermalBound(tracker, lastCall.fluence),
                PHYSICS_CONSTANTS.LASER.MAX_REPETITION_RATE
                  * lastCall.passDuration)

\* the budget is the thermal bound, below the laser's, and uses less than
\* 95 % of the margin: the factor recorded is LASER_SYSTEM
ThermalBoundMisnamed ==
  /\ lastCall.op = "calculateAdaptiveRepRate"
  /\ ThermalBound(tracker, lastCall.fluence)
       < PHYSICS_CONSTANTS.LASER.MAX_REPETITION_RATE * lastCall.passDuration
  /\ lastCall.result.pulsesPerPass = ThermalBound(tracker, lastCall.fluence)
  /\ lastCall.result.limitingFactor = "LASER_SYSTEM"

---------------------------------------------------------------------------
(* momentumCouplingCoefficient over the fluences *)

\* fluences from 0 in steps of 5 J/cm^2
FluenceSteps == 80

\* the steps, and the fluences one micro-J/cm^2 to either side of the
\* breakpoints of the curve
CurveFluences ==
  { 5 * k * FluenceScale : k \in 0..FluenceSteps }
    \cup { b * FluenceScale - 1 : b \in {10, 50, 150, 350} }
    \cup { b * FluenceScale + 1 : b \in {10, 50, 150, 350} }

InitCoupling ==
  /\ \E fluence \in CurveFluences :
       lastCall = [ op |-> "none", fluence |-> fluence ]
  /\ pc = "coupling"
  /\ tracker = None /\ nCalls = 0
  /\ debris = None /\ validation = None
  /\ CampaignIdle /\ ScanIdle /\ PlannerIdle

\* momentumCouplingCoefficient(fluence)
MomentumCoupling ==
  /\ pc = "coupling"
  /\ lastCall.op = "none"
  /\ lastCall' = [ op |-> "momentumCouplingCoefficient",
                   fluence |-> lastCall.fluence,
                   result |-> momentumCouplingCoefficient(lastCall.fluence) ]
  /\ UNCHANGED <<tracker, nCalls, debris, campaignVars, validation, scanVars,
                 plannerVars, pc>>

NextCoupling == MomentumCoupling

SpecCoupling == InitCoupling /\ [][NextCoupling]_vars

\* the value at f of the straight line from (f0, c0) to (f1, c1), f0 and f1
\* in J/cm^2
LineThrough(f, f0, c0, f1, c1) ==
  IF c1 >= c0
  THEN c0 + MulDiv(c1 - c0, f - f0 * FluenceScale, (f1 - f0) * FluenceScale)
  ELSE c0 - MulDiv(c0 - c1, f - f0 * FluenceScale, (f1 - f0) * FluenceScale)

\* c is within tolerance of the line from (f0, c0) to (f1, c1) when f is
\* between f0 and f1
OnSegment(f, c, f0, c0, f1, c1, tolerance) ==
  (f0 * FluenceScale <= f /\ f <= f1 * FluenceScale) =>
    Abs(c - LineThrough(f, f0, c0, f1, c1)) <= tolerance

\* the curve of the code: its lines meet at 10, 50, 150 and 350 J/cm^2
OnCurve(f, c) ==
  /\ OnSegment(f, c, 0, 5 * Ppm, 10, 10 * Ppm, 1)
  /\ OnSegment(f, c, 10, 10 * Ppm, 50, 25 * Ppm, 1)
  /\ OnSegment(f, c, 50, 25 * Ppm, 150, 20 * Ppm, 1)
  /\ OnSegment(f, c, 150, 20 * Ppm, 350, 10 * Ppm, 1)
  /\ f >= 350 * FluenceScale => c = 10 * Ppm

\* the curve of four segments: down to 17.5, to within a half, at
\* 150 J/cm^2, and the value at 150 for every fluence above
OnCanonicalCurve(f, c) ==
  /\ OnSegment(f, c, 0, 5 * Ppm, 10, 10 * Ppm, 1)
  /\ OnSegment(f, c, 10, 10 * Ppm, 50, 25 * Ppm, 1)
  /\ OnSegment(f, c, 50, 25 * Ppm, 150, 17 * Ppm + Ppm \div 2, Ppm \div 2)
  /\ f > 150 * FluenceScale =>
       c = momentumCouplingCoefficient(150 * FluenceScale)

\* C23 as stated: c_m rises linearly from 5 at 0 to 10 at 10 J/cm^2 and
\* from 10 to 25 between 10 and 50, falls linearly from 25 to about 17.5
\* between 50 and 150, and is one constant for every fluence above 150; it
\* is continuous at 10, 50 and 150
CanonicalCurve ==
  lastCall.op = "momentumCouplingCoefficient" =>
    OnCanonicalCurve(lastCall.fluence, lastCall.result)

\* C23: c_m rises linearly from 5 at 0 to 10 at 10 J/cm^2 and from 10 to 25
\* between 10 and 50, falls linearly from 25 to 20 between 50 and 150 and
\* from 20 to 10 between 150 and 350, and is 10 for every fluence from 350
\* on; it is continuous at 10, 50, 150 and 350
CouplingCurve ==
  lastCall.op = "momentumCouplingCoefficient" =>
    OnCurve(lastCall.fluence, lastCall.result)

\* the coefficient at 250 J/cm^2, halfway down from 20 to the floor
CouplingBelowTwenty ==
  /\ lastCall.op = "momentumCouplingCoefficient"
  /\ lastCall.fluence = 250 * FluenceScale
  /\ lastCall.result = 15 * Ppm

---------------------------------------------------------------------------
(* Re-entry detection in the mission callback *)

\* every step of the evolution is flagged exactly when its perigee is below
\* 200 km
StepsFlagged(evolution) ==
  \A k \in 2..Len(evolution) :
    evolution[k].reEntry <=> Lt(evolution[k].perigeeAlt, RE_ENTRY_THRESHOLD_KM)

\* found is the first entry below 200 km, or 0 when there is none
FirstBelow(evolution, found) ==
  /\ found \in 0..Len(evolution)
  /\ \A k \in 1..Len(evolution) :
       Lt(evolution[k].perigeeAlt, RE_ENTRY_THRESHOLD_KM)
         => (found # 0 /\ found <= k)
  /\ found # 0 => Lt(evolution[found].perigeeAlt, RE_ENTRY_THRESHOLD_KM)

\* C24: each step of trackPerigeeEvolution has reEntry true exactly when
\* its perigeeAlt < 200, the re-entry pass runMissionSimulation chooses is
\* the lowest-numbered step isReEntryAchieved holds for, and the same
\* initial orbit and delta-Vs give the same evolution and the same step
ReEntryAtFirstStepBelow ==
  mission.outcome = "reported" =>
    /\ StepsFlagged(mission.orbitalEvolution)
    /\ FirstBelow(mission.orbitalEvolution, mission.reEntryPass)
    /\ mission.orbitalEvolution
         = trackPerigeeEvolution(mission.debris.perigee, mission.debris.apogee,
                                 mission.deltaVsPerPass)

\* a mission whose second pass is the first below 200 km, with a later
\* pass below it too
ReEntryAtSecondPass ==
  /\ mission.outcome = "reported"
  /\ mission.reEntryPass = 3
  /\ Len(mission.orbitalEvolution) > 3
  /\ mission.orbitalEvolution[4].reEntry
  /\ ~mission.orbitalEvolution[2].reEntry

---------------------------------------------------------------------------
(* calculateRequiredCooldown called on a tracker between heatings and
   coolings *)

\* a query that cools the tracker down to the limit it computes with
CooldownCallCooling(t, plannedPulses, fluence) ==
  [ tracker |-> [t EXCEPT !.currentTemp =
                   Min(@, t.ambientTemp + t.maxTempRise
                            - Min(t.maxTempRise,
                                  calculateTempRise(t, plannedPulses, fluence)))],
    result  |-> calculateRequiredCooldown(t, plannedPulses, fluence) ]

\* the tracker after the call and what the call returns: the method assigns
\* to no field of this
CooldownCall(t, plannedPulses, fluence) ==
  [ tracker |-> t,
    result  |-> calculateRequiredCooldown(t, plannedPulses, fluence) ]

RequiredCooldown ==
  /\ pc = "tracker" /\ nCalls < MaxCalls
  /\ \E plannedPulses \in PulseChoices, fluence \in FluenceChoices :
       \E call \in { CooldownCall(tracker, plannedPulses, fluence) } :
           /\ tracker' = call.tracker
           /\ lastCall' = [ op |-> "calculateRequiredCooldown",
                            plannedPulses |-> plannedPulses,
                            fluence |-> fluence, result |-> call.result ]
  /\ nCalls' = nCalls + 1
  /\ UNCHANGED <<debris, campaignVars, validation, scanVars, plannerVars, pc>>

NextCooldown == ApplyHeating \/ ApplyCooling \/ RequiredCooldown

SpecCooldown == Init /\ [][NextCooldown]_vars

\* the planned pulses fit the margin left to t
FitsMargin(t, plannedPulses, fluence) ==
  calculateTempRise(t, plannedPulses, fluence)
    <= t.maxTempRise - (t.currentTemp - t.ambientTemp)

\* C25: calculateRequiredCooldown leaves currentTemp, ambientTemp and
\* heatHistory as they were, for every tracker state and every
\* (plannedPulses, fluence), and returns 0 whenever the projected rise of the
\* planned pulses is <= maxTempRise - (currentTemp - ambientTemp)
CooldownQueryReadOnly ==
  [][ (lastCall'.op = "calculateRequiredCooldown" /\ nCalls' = nCalls + 1) =>
        /\ tracker'.currentTemp = tracker.currentTemp
        /\ tracker'.ambientTemp = tracker.ambientTemp
        /\ tracker'.heatHistory = tracker.heatHistory
        /\ FitsMargin(tracker, lastCall'.plannedPulses, lastCall'.fluence)
             => lastCall'.result = 0 ]_vars

\* the query made on a heated tracker for pulses that fit the margin left,
\* and answered 0
CooldownZeroOnHeated ==
  /\ lastCall.op = "calculateRequiredCooldown"
  /\ tracker.currentTemp > tracker.ambientTemp
  /\ calculateTempRise(tracker, lastCall.plannedPulses, lastCall.fluence) > 0
  /\ FitsMargin(tracker, lastCall.plannedPulses, lastCall.fluence)
  /\ lastCall.result = 0

---------------------------------------------------------------------------
(* The cooldown test of planRemovalCampaign and the heating inside the
   pass, seen from the loop *)

\* the tracker as the pass at index s.i finds it, after the cooling of the gap
CooledForPass(s) ==
  IF s.i > 0
  THEN applyCooling(s.tracker, s.passTimes[s.i + 1] - s.passTimes[s.i]).tracker
  ELSE s.tracker

\* the fluence of the pass at index s.i
FluenceForPass(s) ==
  calculateFluence(s.laserParams.pulseEnergy,
    calculateBeamRadius(
      (s.currentDebris.perigeeAltitude + s.currentDebris.apogeeAltitude) \div 2
        + 100000,
      s.laserParams.wavelength, s.laserParams.transmitterDiameter,
      s.laserParams.beamQuality),
    PHYSICS_CONSTANTS.ATMOSPHERE.TRANSMISSION_EFFICIENCY)

\* requiredCooldown of the pass at index s.i
CooldownForPass(s, cooled, fluence) ==
  calculateRequiredCooldown(cooled,
    calculateAdaptiveRepRate(s.currentDebris, fluence, cooled,
                             PassDuration(s.currentDebris)).pulsesPerPass,
    fluence)

\* C26: in planRemovalCampaign the cooldown required for the adaptive pulse
\* count of every pass is 0, and a pass is skipped only with the reason
\* INTENSITY_TOO_HIGH or THERMAL_LIMIT_REACHED: never for an insufficient
\* cooldown and never because applyHeating refused the pulses
OnlyIntensityAndThermalSkips ==
  /\ \A k \in 1..Len(passResults) :
       passResults[k].skipped
         => passResults[k].reason \in {"INTENSITY_TOO_HIGH", "THERMAL_LIMIT_REACHED"}
  /\ (pc = "loop" /\ LoopContinues
        /\ currentDebris.perigeeAltitude # NaN /\ currentDebris.apogeeAltitude # NaN)
       => CooldownForPass(CampaignLocals, CooledForPass(CampaignLocals),
                          FluenceForPass(CampaignLocals)) = 0

\* a pass that follows an accepted one at once, finds the debris at its
\* thermal limit and is skipped for it
HotPassSkippedForLimit ==
  /\ Len(passResults) >= 2
  /\ ~passResults[1].skipped
  /\ passTimes[2] = passTimes[1]
  /\ passResults[2].skipped
  /\ passResults[2].reason = "THERMAL_LIMIT_REACHED"

---------------------------------------------------------------------------
(* The MissionPlanner panel: the target select, the Calculate button and the
   callbacks it schedules *)

\* the select's onChange: another option was chosen, "-- Choose Target --"
\* (value '') included, for which find returns nothing
SelectTarget ==
  /\ pc = "planner"
  /\ \E target \in ({Null} \cup { DEBRIS_CATALOG[d] : d \in 1..Len(DEBRIS_CATALOG) })
                     \ {selectedDebris} :
       selectedDebris' = target
  /\ showResults' = FALSE
  /\ UNCHANGED <<apiVars, debris, campaignVars, validation, scanVars, pc,
                 stations, missionResults, calculating, timers, alerts, now,
                 mission, track>>

\* the button's disabled attribute
ButtonDisabled == selectedDebris = Null \/ Len(stations) = 0 \/ calculating

\* a click on Calculate Mission
ClickCalculate == ~ButtonDisabled /\ RunMissionSimulation

NextPlanner == SelectTarget \/ ClickCalculate \/ TimerFires

\* the panel as it is mounted, no target chosen, for a station list placed
\* earlier
InitPlanner ==
  /\ InitMission
  /\ selectedDebris = Null
  /\ Len(stations) <= 1

SpecPlanner == InitPlanner /\ [][NextPlanner]_vars

\* C27: whenever the planner shows results, they were computed for the
\* debris that is selected now
ResultsOfSelection ==
  (showResults /\ missionResults # Null) => missionResults.debris = selectedDebris

\* the results of the debris selected at the click are shown while another
\* debris, chosen during the delay, is the selected one
StaleResultsShown ==
  /\ showResults /\ missionResults # Null
  /\ selectedDebris # Null
  /\ missionResults.debris # selectedDebris
  /\ ~calculating /\ timers = << >>

\* C28: at most one calculation is pending at any time, and the callback of
\* every click on Calculate Mission ends with calculating = false and
\* showResults = true, whatever the scan and the recurrence return
CalculationEndsWithResults ==
  [][ /\ Len(timers') <= 1
      /\ Len(timers') < Len(timers) => (~calculating' /\ showResults') ]_vars

\* the callback of the one click made has run and stopped at the TypeError:
\* nothing is pending, the planner is calculating and its button disabled
CalculatingForever ==
  /\ nCalls = 1
  /\ timers = << >>
  /\ mission.outcome = "threw"
  /\ calculating /\ ~showResults
  /\ selectedDebris # Null /\ Len(stations) > 0
  /\ ButtonDisabled

---------------------------------------------------------------------------
(* The counts and sums of the mission report *)

\* C29: in a report of runMissionSimulation passesNeeded is at least 1 and
\* at most totalPasses, equals totalPasses when re-entry is not achieved,
\* and totalDeltaV and totalPulses are the sums over the first passesNeeded
\* passes
PassesNeededWithinTotal ==
  mission.outcome = "reported" =>
    /\ mission.results.passesNeeded >= 1
    /\ mission.results.passesNeeded <= mission.results.totalPasses
    /\ ~mission.results.reEntryAchieved
         => mission.results.passesNeeded = mission.results.totalPasses
    /\ mission.results.totalDeltaV
         = SumOfFirst(mission.deltaVsPerPass,
                      Min(mission.results.passesNeeded, Len(mission.allPasses)))
    /\ mission.results.totalPulses
         = SumOfFirst([ idx \in 1..Len(mission.passDetails) |->
                          mission.passDetails[idx].pulses ],
                      Min(mission.results.passesNeeded, Len(mission.allPasses)))

\* a report for two passes that do not bring the debris down: re-entry is
\* not achieved and passesNeeded is one more than the passes found
PassesNeededOverTotal ==
  /\ mission.outcome = "reported"
  /\ mission.results.totalPasses = 2
  /\ ~mission.results.reEntryAchieved
  /\ mission.results.passesNeeded = 3
  /\ missionResults = mission.results

---------------------------------------------------------------------------
(* propagateWithLaserPasses, one pass of the forEach per step.  Times in s,
   delta-Vs in mm/s *)

\* number of passes in laserPasses
MaxLaserPasses == 3

LaserPassChoices ==
  { [time |-> 3600, deltaV |-> 10], [time |-> 7200, deltaV |-> 20],
    [time |-> 7200, deltaV |-> 5] }

\* what satellite.propagate returns: position and velocity, or false for both
\* (the empty tuple here)
PropagationChoices ==
  { [position |-> << >>, velocity |-> << >>],
    [position |-> <<7000000, 0, 0>>, velocity |-> <<0, 7546053, 0>>],
    [position |-> <<0, 3500000, 6000000>>, velocity |-> <<1000000, 7500000, 0>>] }

\* the component k of the velocity added
AddedVelocity(position, velocity, deltaV, direction, k) ==
  CASE direction = "prograde" ->
         Ratio(velocity[k], deltaV, Magnitude(velocity))
    [] direction = "retrograde" ->
         Minus(0, Ratio(velocity[k], deltaV, Magnitude(velocity)))
    [] direction = "radial-out" ->
         Ratio(position[k], deltaV, Magnitude(position))
    [] direction = "radial-in" ->
         Minus(0, Ratio(position[k], deltaV, Magnitude(position)))
    [] OTHER -> 0

applyDeltaV(position, velocity, deltaV, direction) ==
  [ position |-> position,
    velocity |-> [ k \in 1..3 |->
                     Plus(velocity[k],
                          AddedVelocity(position, velocity, deltaV, direction, k)) ] ]

\* sorted, with e put behind the elements whose time is not later than e's
InsertByTime(sorted, e) ==
  LET k == Cardinality({ j \in 1..Len(sorted) : sorted[j].time <= e.time })
  IN  SubSeq(sorted, 1, k) \o << e >> \o SubSeq(sorted, k + 1, Len(sorted))

\* [...laserPasses].sort((a, b) => a.time - b.time): a stable sort
RECURSIVE SortByTime(_)
SortByTime(seq) ==
  IF seq = << >> THEN << >>
  ELSE InsertByTime(SortByTime(SubSeq(seq, 1, Len(seq) - 1)), seq[Len(seq)])

\* the deltaV of each pass of a list
DeltaVsOf(passList) == [ k \in 1..Len(passList) |-> passList[k].deltaV ]

\* the entry pushed to orbitalHistory for the pass at index (from 0)
HistoryEntry(laserPasses, pass, index, elemsBefore, elemsAfter) ==
  [ time               |-> pass.time,
    passNumber         |-> index + 1,
    before             |-> elemsBefore,
    after              |-> elemsAfter,
    deltaV             |-> pass.deltaV,
    cumulativeDeltaV   |-> SumOfFirst(DeltaVsOf(laserPasses), index + 1),
    perigeeAlt         |-> elemsAfter.perigeeAlt,
    apogeeAlt          |-> elemsAfter.apogeeAlt,
    reEntryApproaching |-> Lt(elemsAfter.perigeeAlt, RE_ENTRY_THRESHOLD_KM) ]

\* the body of the forEach for a propagation that succeeded
HistoryAfter(s, pass, posVel, newState) ==
  Append(s.orbitalHistory,
         HistoryEntry(s.laserPasses, pass, s.index,
                      stateVectorsToOrbitalElements(posVel.position, posVel.velocity),
                      stateVectorsToOrbitalElements(newState.position,
                                                    newState.velocity)))

\* the object returned
PropagationResult(s) ==
  [ initialOrbit    |-> stateVectorsToOrbitalElements(s.satrec.position,
                                                      s.satrec.velocity),
    history         |-> s.orbitalHistory,
    reEntryAchieved |->
      IF s.orbitalHistory = << >> THEN FALSE
      ELSE Lt(s.orbitalHistory[Len(s.orbitalHistory)].perigeeAlt,
              RE_ENTRY_THRESHOLD_KM),
    totalDeltaV     |-> SumOfFirst(DeltaVsOf(s.laserPasses), Len(s.laserPasses)),
    totalPasses     |-> Len(s.laserPasses) ]

RECURSIVE LaserPassLists(_)
LaserPassLists(n) ==
  IF n = 0 THEN { << >> }
  ELSE LaserPassLists(n - 1)
         \cup { Append(list, pass) : list \in LaserPassLists(n - 1),
                                     pass \in LaserPassChoices }

\* the call: laserPasses in any order; satrec is what twoline2satrec made of
\* the TLE, with the position and velocity fields the return statement reads
\* or without them
InitPropagation ==
  /\ \E laserPasses \in LaserPassLists(MaxLaserPasses),
        satrec \in { [position |-> << >>, velocity |-> << >>],
                     [position |-> <<7000000, 0, 0>>,
                      velocity |-> <<0, 7546053, 0>>] } :
       track = [ laserPasses |-> laserPasses, satrec |-> satrec,
                 sortedPasses |-> SortByTime(laserPasses),
                 orbitalHistory |-> << >>, index |-> 0 ]
  /\ pc = "propagate"
  /\ stations = None /\ selectedDebris = None /\ missionResults = None
  /\ calculating = None /\ showResults = None /\ timers = None
  /\ alerts = None /\ now = None /\ mission = None
  /\ tracker = None /\ lastCall = [op |-> "none"] /\ nCalls = 0
  /\ debris = None /\ validation = None
  /\ CampaignIdle /\ ScanIdle

\* the callback of sortedPasses.forEach for the pass at track.index
PropagatePass ==
  /\ pc = "propagate"
  /\ track.index < Len(track.sortedPasses)
  /\ \E posVel \in PropagationChoices :
       \E pass \in { track.sortedPasses[track.index + 1] } :
         track' = [track EXCEPT
                     !.index = @ + 1,
                     !.orbitalHistory =
                        IF posVel.position # << >> /\ posVel.velocity # << >>
                        THEN HistoryAfter(track, pass, posVel,
                               applyDeltaV(posVel.position, posVel.velocity,
                                           pass.deltaV, "retrograde"))
                        ELSE @]
  /\ UNCHANGED <<apiVars, debris, campaignVars, validation, scanVars, pc,
                 stations, selectedDebris, missionResults, calculating,
                 showResults, timers, alerts, now, mission>>

\* the return statement: reading satrec.position.x throws a TypeError when
\* satrec has no position
ReturnHistory ==
  /\ pc = "propagate"
  /\ track.index = Len(track.sortedPasses)
  /\ IF track.satrec.position = << >>
     THEN pc' = "threw" /\ UNCHANGED track
     ELSE /\ pc' = "returned"
          /\ track' = track @@ [ result |-> PropagationResult(track) ]
  /\ UNCHANGED <<apiVars, debris, campaignVars, validation, scanVars,
                 stations, selectedDebris, missionResults, calculating,
                 showResults, timers, alerts, now, mission>>

NextPropagation == PropagatePass \/ ReturnHistory

SpecPropagation == InitPropagation /\ [][NextPropagation]_vars

\* C30: whatever the order of laserPasses, the history entry with
\* passNumber k has cumulativeDeltaV equal to the sum of the deltaV of the k
\* chronologically earliest passes, and the last entry's cumulativeDeltaV is
\* the totalDeltaV returned
CumulativeDeltaVChronological ==
  pc \in {"propagate", "returned"} =>
    /\ \A h \in 1..Len(track.orbitalHistory) :
         track.orbitalHistory[h].cumulativeDeltaV
           = SumOfFirst(DeltaVsOf(track.sortedPasses),
                        track.orbitalHistory[h].passNumber)
    /\ (pc = "returned" /\ track.orbitalHistory # << >>)
         => track.orbitalHistory[Len(track.orbitalHistory)].cumulativeDeltaV
              = track.result.totalDeltaV

\* every pass of a list given latest first was propagated and applied, and
\* the first entry of the history returned counts the delta-V of the latest
\* pass instead of its own
CumulativeOfInputOrder ==
  /\ pc = "returned"
  /\ Len(track.laserPasses) >= 2
  /\ Len(track.orbitalHistory) = Len(track.laserPasses)
  /\ track.laserPasses[1].time > track.laserPasses[2].time
  /\ track.orbitalHistory[1].deltaV # track.orbitalHistory[1].cumulativeDeltaV

====
